---- MODULE Spec2Model ----
(***************************************************************************)
(* Model of the email extraction pipeline of google-maps-scraper:          *)
(* gmaps/email_pipeline.go (EmailPipeline.Run, fetchWithRetry, fetchPage,  *)
(* extractEmails, filterValid), gmaps/contact_finder.go                    *)
(* (discoverContactPages) and the email helpers (isValidEmail,             *)
(* deduplicateEmails, extractEmailsFromDoc, extractEmailsFromHTML).        *)
(*                                                                         *)
(* Strings are sequences of symbols.  A symbol stands for a run of         *)
(* characters that the modelled code never splits ("info", "@", "/contact")*)
(* so that prefix, suffix, substring, index and case operations are        *)
(* computed on the sequence exactly as the Go code computes them on bytes. *)
(***************************************************************************)
EXTENDS Integers, Sequences, FiniteSets, TLC

(***************************************************************************)
(* Bounds of the model (not program constants).                            *)
(***************************************************************************)
\* number of anchors (taken from AllLinks, in order) a homepage may carry
MaxLinks == 8

(***************************************************************************)
(* Program constants.                                                      *)
(***************************************************************************)
maxRetryLevel1 == 2
maxRetryLevel2 == 1
\* retryBackoff1, retryBackoff2 in seconds
retryBackoff1 == 1
retryBackoff2 == 3
maxContactPages == 5
\* "limit := 3" of Level 3
browserPageLimit == 3
\* maxResponseBytes, in MB
maxResponseBytes == 5

(***************************************************************************)
(* String helpers (package strings).                                       *)
(***************************************************************************)
\* strings.ToLower, symbol by symbol
LowerSym(c) ==
    CASE c = "Info" -> "info"
      [] c = "Sales" -> "sales"
      [] c = "SALES" -> "sales"
      [] c = "NoReply" -> "noreply"
      [] c = "Biz" -> "biz"
      [] c = "Example" -> "example"
      [] c = "Contact" -> "contact"
      [] c = "About us" -> "about us"
      [] c = "/Contact" -> "/contact"
      [] c = "Mailto:" -> "mailto:"
      [] c = "MAILTO:" -> "mailto:"
      [] c = "mailTo:" -> "mailto:"
      [] c = "JavaScript:" -> "javascript:"
      [] c = ".PDF" -> ".pdf"
      [] c = "HTTPS://" -> "https://"
      [] c = "Http://" -> "http://"
      [] c = "Facebook" -> "facebook"
      [] c = "YELP" -> "yelp"
      [] c = "TripAdvisor" -> "tripadvisor"
      [] OTHER -> c

ToLower(s) == [i \in 1..Len(s) |-> LowerSym(s[i])]

HasPrefix(s, p) == Len(p) <= Len(s) /\ SubSeq(s, 1, Len(p)) = p

\* strings.Contains
Contains(s, p) ==
    \E i \in 0..(Len(s) - Len(p)) : SubSeq(s, i + 1, i + Len(p)) = p

\* strings.Index for a one-symbol needle: 0 when absent, else first position
IndexOf(s, c) ==
    IF \E i \in 1..Len(s) : s[i] = c
    THEN CHOOSE i \in 1..Len(s) : s[i] = c /\ \A j \in 1..(i - 1) : s[j] # c
    ELSE 0

\* strings.LastIndex for a one-symbol needle: 0 when absent
LastIndexOf(s, c) ==
    IF \E i \in 1..Len(s) : s[i] = c
    THEN CHOOSE i \in 1..Len(s) : s[i] = c /\ \A j \in (i + 1)..Len(s) : s[j] # c
    ELSE 0

RECURSIVE TrimLeft(_)
TrimLeft(s) == IF s # <<>> /\ Head(s) = " " THEN TrimLeft(Tail(s)) ELSE s

RECURSIVE TrimRight(_)
TrimRight(s) ==
    IF s # <<>> /\ s[Len(s)] = " " THEN TrimRight(SubSeq(s, 1, Len(s) - 1)) ELSE s

\* strings.TrimSpace
TrimSpace(s) == TrimRight(TrimLeft(s))

(***************************************************************************)
(* go-emailaddress: the RFC 5322 pattern used by Parse (anchored) and Find *)
(* (unanchored).  A string has the shape of an address when it is          *)
(* local "@" label ("." label)+ with no space and no second "@".           *)
(***************************************************************************)
IsLabelSym(c) == c \notin {"@", ".", " ", "?", "mailto:", "Mailto:", "MAILTO:", "mailTo:"}

EmailShaped(s) ==
    LET at == IndexOf(s, "@") IN
    /\ at > 1
    /\ at = LastIndexOf(s, "@")
    /\ \A i \in 1..Len(s) : s[i] \notin {" ", "?", "mailto:", "Mailto:", "MAILTO:", "mailTo:"}
    /\ s[1] # "." /\ s[at - 1] # "."
    /\ Len(s) >= at + 3
    /\ IsLabelSym(s[at + 1]) /\ IsLabelSym(s[Len(s)])
    /\ \E i \in (at + 2)..(Len(s) - 1) : s[i] = "."
    /\ \A i \in (at + 1)..(Len(s) - 1) : ~(s[i] = "." /\ s[i + 1] = ".")

\* emailaddress.Parse(s) succeeds
ParseOk(s) == EmailShaped(s)

(***************************************************************************)
(* isValidEmail, deduplicateEmails (email helpers).                        *)
(***************************************************************************)
blockedEmailPrefixes ==
    << <<"noreply", "@">>, <<"no-reply", "@">>, <<"no_reply", "@">>, <<"mailer-daemon", "@">> >>

blockedEmailDomains ==
    << <<"example", ".", "com">>, <<"test", ".", "com">>, <<"localhost">>, <<"sentry", ".", "io">> >>

\* isValidEmail with the domain compared by suffix
isValidEmailSuffix(s) ==
    IF s = <<>> THEN FALSE
    ELSE IF ~ParseOk(TrimSpace(s)) THEN FALSE
    ELSE LET lower == ToLower(TrimSpace(s))
             atIdx == LastIndexOf(lower, "@")
             domain == SubSeq(lower, atIdx + 1, Len(lower))
         IN /\ \A k \in 1..Len(blockedEmailPrefixes) : ~HasPrefix(lower, blockedEmailPrefixes[k])
            /\ atIdx > 0
            /\ \A k \in 1..Len(blockedEmailDomains) :
                   ~(/\ Len(blockedEmailDomains[k]) <= Len(domain)
                     /\ SubSeq(domain, Len(domain) - Len(blockedEmailDomains[k]) + 1, Len(domain))
                            = blockedEmailDomains[k])

isValidEmail(s) ==
    IF s = <<>> THEN FALSE
    ELSE IF ~ParseOk(TrimSpace(s)) THEN FALSE
    ELSE LET lower == ToLower(TrimSpace(s))
             atIdx == LastIndexOf(lower, "@")
             domain == SubSeq(lower, atIdx + 1, Len(lower))
         IN /\ \A k \in 1..Len(blockedEmailPrefixes) : ~HasPrefix(lower, blockedEmailPrefixes[k])
            /\ atIdx > 0
            /\ \A k \in 1..Len(blockedEmailDomains) : domain # blockedEmailDomains[k]

\* the loop of deduplicateEmails looking up the address as written
RECURSIVE dedupLoopExact(_, _)
dedupLoopExact(emailsIn, acc) ==
    IF emailsIn = <<>> THEN acc
    ELSE LET lower == ToLower(Head(emailsIn)) IN
         IF \E i \in 1..Len(acc) : acc[i] = Head(emailsIn)
         THEN dedupLoopExact(Tail(emailsIn), acc)
         ELSE dedupLoopExact(Tail(emailsIn), Append(acc, lower))

\* the loop of deduplicateEmails: result so far in acc, seen = elements of acc
RECURSIVE dedupLoop(_, _)
dedupLoop(emailsIn, acc) ==
    IF emailsIn = <<>> THEN acc
    ELSE LET lower == ToLower(Head(emailsIn)) IN
         IF \E i \in 1..Len(acc) : acc[i] = lower
         THEN dedupLoop(Tail(emailsIn), acc)
         ELSE dedupLoop(Tail(emailsIn), Append(acc, lower))

deduplicateEmails(emailsIn) == dedupLoop(emailsIn, <<>>)

\* the loop keeping every candidate not yet seen, valid or not
RECURSIVE collectUnchecked(_, _)
collectUnchecked(cands, acc) ==
    IF cands = <<>> THEN acc
    ELSE LET lower == ToLower(Head(cands)) IN
         IF ~(\E i \in 1..Len(acc) : acc[i] = lower)
         THEN collectUnchecked(Tail(cands), Append(acc, lower))
         ELSE collectUnchecked(Tail(cands), acc)

\* the loop shared by extractEmailsFromDoc / extractEmailsFromHTML:
\* lowercase each candidate, keep it when valid and not yet seen
RECURSIVE collectValid(_, _)
collectValid(cands, acc) ==
    IF cands = <<>> THEN acc
    ELSE LET lower == ToLower(Head(cands)) IN
         IF isValidEmail(lower) /\ ~(\E i \in 1..Len(acc) : acc[i] = lower)
         THEN collectValid(Tail(cands), Append(acc, lower))
         ELSE collectValid(Tail(cands), acc)

\* filterValid of email_pipeline.go
filterValid(emailsIn) == SelectSeq(deduplicateEmails(emailsIn), isValidEmail)

(***************************************************************************)
(* Documents.  A response body is a record [parse, nodes]: parse tells     *)
(* whether goquery.NewDocumentFromReader succeeds on it, nodes lists its   *)
(* content in document order.  A node is [kind, href, words]:              *)
(*   kind "a"      an anchor; href its href attribute, words its text      *)
(*   kind "text"   visible text; words the whitespace separated strings    *)
(*   kind "script" script/style/noscript content, invisible                *)
(* An anchor without href attribute has href = <<>> and is matched by no   *)
(* selector of the code.                                                   *)
(***************************************************************************)
MailtoSchemes == {"mailto:", "Mailto:", "MAILTO:"}

\* one leftmost-longest match of the (unanchored) address pattern in s
FindIn(s) ==
    LET M == {ij \in (1..Len(s)) \X (1..Len(s)) :
                 ij[1] <= ij[2] /\ EmailShaped(SubSeq(s, ij[1], ij[2]))}
    IN IF M = {} THEN <<>>
       ELSE LET i == CHOOSE a \in {m[1] : m \in M} : \A m \in M : a <= m[1]
                j == CHOOSE b \in {m[2] : m \in {x \in M : x[1] = i}} :
                         \A m \in {x \in M : x[1] = i} : b >= m[2]
            IN << SubSeq(s, i, j) >>

\* emailaddress.Find over a sequence of strings
RECURSIVE FindAll(_)
FindAll(strs) == IF strs = <<>> THEN <<>> ELSE FindIn(Head(strs)) \o FindAll(Tail(strs))

\* docCopy.Text() after removing script, style, noscript
RECURSIVE VisibleText(_)
VisibleText(nodes) ==
    IF nodes = <<>> THEN <<>>
    ELSE (IF Head(nodes).kind \in {"a", "text"} THEN Head(nodes).words ELSE <<>>)
         \o VisibleText(Tail(nodes))

\* the raw bytes of the body: attributes and every text, in document order
RECURSIVE RawStrings(_)
RawStrings(nodes) ==
    IF nodes = <<>> THEN <<>>
    ELSE (IF Head(nodes).kind = "a" /\ Head(nodes).href # <<>>
          THEN <<Head(nodes).href>> ELSE <<>>)
         \o Head(nodes).words \o RawStrings(Tail(nodes))

\* the value the mailto callback derives from one href
MailtoValue(href) ==
    LET value0 == TrimSpace(href)
        value1 == IF HasPrefix(ToLower(value0), <<"mailto:">>) THEN Tail(value0) ELSE value0
        idx == IndexOf(value1, "?")
        value2 == IF idx > 0 THEN SubSeq(value1, 1, idx - 1) ELSE value1
    IN TrimSpace(value2)

\* strategy 1 of extractEmailsFromDoc: anchors selected by a[href^='mailto:'] ...
RECURSIVE MailtoLoop(_, _)
MailtoLoop(nodes, acc) ==
    IF nodes = <<>> THEN acc
    ELSE LET n == Head(nodes) IN
         IF n.kind = "a" /\ n.href # <<>> /\ Head(n.href) \in MailtoSchemes
         THEN LET value == MailtoValue(n.href)
                  lower == ToLower(value)
              IN IF value # <<>> /\ isValidEmail(lower)
                    /\ ~(\E i \in 1..Len(acc) : acc[i] = lower)
                 THEN MailtoLoop(Tail(nodes), Append(acc, lower))
                 ELSE MailtoLoop(Tail(nodes), acc)
         ELSE MailtoLoop(Tail(nodes), acc)

extractEmailsFromDoc(doc) ==
    collectValid(FindAll(VisibleText(doc.nodes)), MailtoLoop(doc.nodes, <<>>))

\* the removal of script, style and noscript made on the document itself
docAfterExtractInPlace(doc) ==
    [doc EXCEPT !.nodes = SelectSeq(doc.nodes, LAMBDA n : n.kind \in {"a", "text"})]

\* the document extractEmailsFromDoc leaves to its caller: docCopy :=
\* doc.Clone() is a deep copy, and Remove() acts on the copy
docAfterExtract(doc) == doc

extractEmailsFromHTML(body) == collectValid(FindAll(RawStrings(body.nodes)), <<>>)

\* extractEmailsFromText on a text given as its whitespace separated strings
extractEmailsFromText(text) == collectValid(FindAll(text), <<>>)

\* extractEmails giving up on a body goquery cannot parse
extractEmailsParsedOnly(body) ==
    LET docEmails == IF body.parse THEN filterValid(extractEmailsFromDoc(body)) ELSE <<>>
        htmlEmails == IF body.parse THEN filterValid(extractEmailsFromHTML(body)) ELSE <<>>
    IN IF Len(docEmails) > 0 THEN docEmails
       ELSE IF Len(htmlEmails) > 0 THEN htmlEmails
       ELSE <<>>

\* EmailPipeline.extractEmails: the list returned (<<>> stands for nil) ...
extractEmails(body) ==
    LET docEmails == IF body.parse THEN filterValid(extractEmailsFromDoc(body)) ELSE <<>>
        htmlEmails == filterValid(extractEmailsFromHTML(body))
    IN IF Len(docEmails) > 0 THEN docEmails
       ELSE IF Len(htmlEmails) > 0 THEN htmlEmails
       ELSE <<>>

\* ... and whether the document it returns is non-nil
extractDocOk(body) == body.parse

(***************************************************************************)
(* URLs (package net/url).  An href is a string of symbols: a scheme       *)
(* symbol ("https://", "mailto:", "javascript:"), a host symbol, path      *)
(* symbols ("/contact", "-us", ".pdf"), "#" and a fragment.  Hrefs with a  *)
(* relative path that does not start with "/" are not among the inputs.    *)
(***************************************************************************)
HTTPSchemes == {"https://", "http://"}
OpaqueSchemes == {"mailto:", "Mailto:", "MAILTO:", "mailTo:", "javascript:", "JavaScript:"}

\* url.Parse: [ok, scheme, host, path, frag]
ParseURL(s) ==
    LET hashIdx == IndexOf(s, "#")
        main == IF hashIdx > 0 THEN SubSeq(s, 1, hashIdx - 1) ELSE s
        frag == IF hashIdx > 0 THEN SubSeq(s, hashIdx, Len(s)) ELSE <<>>
    IN IF \E i \in 1..Len(main) : main[i] = "%zz"
       THEN [ok |-> FALSE, scheme |-> "", host |-> "", path |-> <<>>, frag |-> <<>>]
       ELSE IF main # <<>> /\ Head(main) \in HTTPSchemes
       THEN [ok |-> TRUE, scheme |-> Head(main),
             host |-> IF Len(main) >= 2 THEN main[2] ELSE "",
             path |-> SubSeq(main, 3, Len(main)), frag |-> frag]
       ELSE IF main # <<>> /\ Head(main) \in OpaqueSchemes
       THEN [ok |-> TRUE, scheme |-> LowerSym(Head(main)), host |-> "",
             path |-> <<>>, frag |-> frag]
       ELSE [ok |-> TRUE, scheme |-> "", host |-> "", path |-> main, frag |-> frag]

\* (*URL).ResolveReference followed by String(): the resolved URL
ResolveReference(base, ref) ==
    IF ref.scheme # "" THEN [scheme |-> ref.scheme, host |-> ref.host,
                             path |-> ref.path, frag |-> ref.frag]
    ELSE IF ref.path = <<>> THEN [scheme |-> base.scheme, host |-> base.host,
                                  path |-> base.path, frag |-> ref.frag]
    ELSE [scheme |-> base.scheme, host |-> base.host, path |-> ref.path, frag |-> ref.frag]

\* (*URL).String()
URLString(u) == <<u.scheme, u.host>> \o u.path \o u.frag

\* path.Ext: the extension of the last path element
PathExt(path) ==
    IF path # <<>> /\ LowerSym(path[Len(path)]) \in {".pdf", ".jpg", ".zip", ".mp4", ".html"}
    THEN path[Len(path)] ELSE ""

(***************************************************************************)
(* discoverContactPages (contact_finder.go).                               *)
(***************************************************************************)
contactPathPatterns ==
    << <<"/contact">>, <<"/contact", "s">>, <<"/contatti">>, <<"/kontakt">>,
       <<"/contact", "o">>, <<"/get-in-touch">>, <<"/reach-us">>,
       <<"/about">>, <<"/about", "-us">>, <<"/chi-siamo">>, <<"/impressum">>,
       <<"/who-we-are">> >>

contactTextPatterns ==
    << <<"contact">>, <<"contatti">>, <<"kontakt">>, <<"contacto">>,
       <<"chi siamo">>, <<"about us">>, <<"get in touch">>, <<"reach us">>,
       <<"impressum">>, <<"who we are">> >>

skipExtensions ==
    {".pdf", ".jpg", ".jpeg", ".png", ".gif", ".svg", ".webp", ".zip", ".tar", ".gz",
     ".doc", ".docx", ".xls", ".xlsx", ".mp3", ".mp4", ".avi", ".mov"}

\* s.Text() of an anchor: its words joined
RECURSIVE JoinWords(_)
JoinWords(words) ==
    IF words = <<>> THEN <<>>
    ELSE IF Len(words) = 1 THEN Head(words)
    ELSE Head(words) \o <<" ">> \o JoinWords(Tail(words))

\* index (from 0) of the first path pattern contained in lowerPath, -1 if none
PathPriority(lowerPath) ==
    IF \E i \in 1..Len(contactPathPatterns) : Contains(lowerPath, contactPathPatterns[i])
    THEN (CHOOSE i \in 1..Len(contactPathPatterns) :
             /\ Contains(lowerPath, contactPathPatterns[i])
             /\ \A j \in 1..(i - 1) : ~Contains(lowerPath, contactPathPatterns[j])) - 1
    ELSE -1

TextMatches(text) ==
    \E i \in 1..Len(contactTextPatterns) : Contains(text, contactTextPatterns[i])

\* the callback of doc.Find("a[href]").Each applied to the anchors in order;
\* cands is the candidates slice ([url, priority]), seen = the urls in it
RECURSIVE candidateLoop(_, _, _)
candidateLoop(nodes, base, cands) ==
    IF nodes = <<>> THEN cands
    ELSE LET n == Head(nodes)
             rest == Tail(nodes)
         IN IF n.kind # "a" \/ n.href = <<>> THEN candidateLoop(rest, base, cands)
            ELSE LET href == TrimSpace(n.href) IN
            IF href # <<>> /\ Head(href) = "#" THEN candidateLoop(rest, base, cands)
            ELSE IF HasPrefix(ToLower(href), <<"javascript:">>)
                 THEN candidateLoop(rest, base, cands)
            ELSE LET parsed == ParseURL(href) IN
            IF ~parsed.ok THEN candidateLoop(rest, base, cands)
            ELSE LET resolved == ResolveReference(base, parsed)
                     fullURL == URLString(resolved)
                     ext == LowerSym(PathExt(resolved.path))
                     lowerPath == ToLower(resolved.path)
                     prio == PathPriority(lowerPath)
                     text == ToLower(TrimSpace(JoinWords(n.words)))
                 IN IF resolved.host # base.host THEN candidateLoop(rest, base, cands)
                    ELSE IF ext \in skipExtensions THEN candidateLoop(rest, base, cands)
                    ELSE IF \E i \in 1..Len(cands) : cands[i].url = fullURL
                         THEN candidateLoop(rest, base, cands)
                    ELSE IF prio >= 0
                         THEN candidateLoop(rest, base,
                                  Append(cands, [url |-> fullURL, priority |-> prio]))
                    ELSE IF TextMatches(text)
                         THEN candidateLoop(rest, base,
                                  Append(cands, [url |-> fullURL,
                                                 priority |-> 100 + Len(cands)]))
                    ELSE candidateLoop(rest, base, cands)

\* the inner loop sinking element j also past an equal left neighbour
RECURSIVE sinkLeftUnstable(_, _)
sinkLeftUnstable(c, j) ==
    IF j > 1 /\ c[j].priority <= c[j - 1].priority
    THEN sinkLeftUnstable([c EXCEPT ![j] = c[j - 1], ![j - 1] = c[j]], j - 1)
    ELSE c

\* inner loop of the insertion sort: sink element j while smaller than its left neighbour
RECURSIVE sinkLeft(_, _)
sinkLeft(c, j) ==
    IF j > 1 /\ c[j].priority < c[j - 1].priority
    THEN sinkLeft([c EXCEPT ![j] = c[j - 1], ![j - 1] = c[j]], j - 1)
    ELSE c

RECURSIVE insertionSort(_, _)
insertionSort(c, i) == IF i > Len(c) THEN c ELSE insertionSort(sinkLeft(c, i), i + 1)

\* discoverContactPages without the truncation
discoverContactPagesAll(doc, baseURL) ==
    LET base == ParseURL(baseURL) IN
    IF ~base.ok THEN <<>>
    ELSE LET sorted == insertionSort(candidateLoop(doc.nodes, base, <<>>), 2)
         IN [i \in 1..Len(sorted) |-> sorted[i].url]

discoverContactPages(doc, baseURL) ==
    LET base == ParseURL(baseURL) IN
    IF ~base.ok THEN <<>>
    ELSE LET sorted == insertionSort(candidateLoop(doc.nodes, base, <<>>), 2)
             limit == IF Len(sorted) < maxContactPages THEN Len(sorted) ELSE maxContactPages
         IN [i \in 1..limit |-> sorted[i].url]

(***************************************************************************)
(* Inputs: the addresses, documents and site the runs are checked on.      *)
(***************************************************************************)
Node(k, h, w) == [kind |-> k, href |-> h, words |-> w]
Doc(ok, ns) == [parse |-> ok, nodes |-> ns]

eInfo == <<"info", "@", "biz", ".", "com">>
eSalesUp == <<"Sales", "@", "Biz", ".", "com">>
eSales == <<"sales", "@", "biz", ".", "com">>
eNoReply == <<"noreply", "@", "biz", ".", "com">>
eExample == <<"user", "@", "example", ".", "com">>

\* <a href="mailto:info@biz.com?subject=hi">Email us</a> <p>or Sales@Biz.com</p>
DocMailto ==
    Doc(TRUE, << Node("a", <<"mailto:">> \o eInfo \o <<"?", "subject=hi">>, <<<<"Email us">>>>),
                 Node("text", <<>>, <<<<"or">>, eSalesUp>>) >>)
\* <p>Reach us at Sales@Biz.com</p>
DocText == Doc(TRUE, << Node("text", <<>>, <<<<"Reach us at">>, eSalesUp>>) >>)
\* <script>var m = "info@biz.com"</script>
DocScript == Doc(TRUE, << Node("script", <<>>, <<eInfo>>) >>)
\* <p>Welcome</p>
DocNone == Doc(TRUE, << Node("text", <<>>, <<<<"Welcome">>>>) >>)
\* <a href="mailto:noreply@biz.com">x</a> <p>user@example.com</p>
DocBlocked ==
    Doc(TRUE, << Node("a", <<"mailto:">> \o eNoReply, <<<<"x">>>>),
                 Node("text", <<>>, <<eExample>>) >>)
\* a body goquery cannot parse, carrying info@biz.com
DocBad == Doc(FALSE, << Node("text", <<>>, <<eInfo>>) >>)
\* a body goquery cannot parse, carrying no address
DocBadNone == Doc(FALSE, << Node("text", <<>>, <<<<"Welcome">>>>) >>)

\* the anchors a homepage may carry, in document order
AllLinks ==
    << Node("a", <<"/about">>, <<<<"Company">>>>),
       Node("a", <<"https://", "site">>, <<<<"Contact">>, <<"us">>>>),
       Node("a", <<"#", "top">>, <<<<"Contact">>>>),
       Node("a", <<"/contact">>, <<<<"Write">>>>),
       Node("a", <<"https://", "other", "/contact">>, <<<<"Contact">>>>),
       Node("a", <<"/team">>, <<<<"Contact">>>>),
       Node("a", <<"/contact", ".pdf">>, <<<<"Contact">>>>),
       Node("a", <<"/Contact", "-us">>, <<<<"More">>>>),
       Node("a", <<"JavaScript:", "void">>, <<<<"Contact">>>>),
       Node("a", <<"/kontakt">>, <<<<"Kontakt">>>>),
       Node("a", <<"/impressum">>, <<<<"Impressum">>>>),
       Node("a", <<"/products">>, <<<<"Products">>>>) >>

\* a homepage without address carrying the first n anchors of AllLinks
LinkDoc(n) ==
    Doc(TRUE, <<Node("text", <<>>, <<<<"Welcome">>>>)>>
              \o SubSeq(AllLinks, 1, IF n < Len(AllLinks) THEN n ELSE Len(AllLinks)))

\* bodies a contact page or a render may deliver
PageBodies == {DocMailto, DocNone, DocBad}
\* bodies the homepage may deliver
HomeBodies ==
    {DocMailto, DocText, DocScript, DocNone, DocBlocked, DocBad, DocBadNone}
        \cup {LinkDoc(n) : n \in 1..MaxLinks}

\* entry.WebSite
WebSite == <<"https://", "site">>

NoBody == Doc(FALSE, <<>>)

(***************************************************************************)
(* State of one EmailPipeline and of its Run.                              *)
(***************************************************************************)
VARIABLES
    pc,             \* position of Run
    attempt,        \* loop variable of fetchWithRetry
    idx,            \* position in contactPages of the Level 2 / Level 3 loop (from 1)
    body,           \* the body returned by the last successful fetch or render
    emails,         \* entry.Emails (elements)
    emailsNil,      \* entry.Emails is the nil slice
    emailStatus,    \* entry.EmailStatus
    emailSource,    \* entry.EmailSource
    contactPages,   \* p.contactPages
    browserFetcher, \* p.browserFetcher: "nil", "page" (pageBrowserFetcher) or "mock"
    ctxDone,        \* ctx.Done() is closed (deadline elapsed or caller cancelled)
    ret,            \* what Run returned: "none" while running, "nil" for a nil error
    ctxDoneAt,      \* the level Run was in when ctx.Done() was closed ("" while open)
    fetchErr,       \* the last fetchWithRetry call of Run returned an error
    trace,          \* the fetchPage and FetchWithBrowser calls made so far
    lastErr,        \* fetchWithRetry's lastErr: the error of its latest failed attempt
    retErr,         \* the error the last fetchWithRetry call returned ("nil" for none)
    backoffs,       \* the backoff waits (seconds) completed in the current fetchWithRetry call
    fn,             \* the helper function under call ("" inside Run)
    arg,            \* its argument
    res,            \* its result once it returned
    browserPage,    \* j.browserPage of the EmailExtractJob: "nil" or "page"
    exitMonitor,    \* j.ExitMonitor: "nil" or "set"
    placesCompleted, \* the monitor's count of completed places
    resp,           \* the *scrapemate.Response handed to Process
    result,         \* what Process returned
    maxDepth,       \* scroll's maxDepth
    scrollCount,    \* scroll's scrollCount
    staleCount,     \* scroll's staleCount
    currentScrollHeight, \* scroll's currentScrollHeight
    scrollPc,       \* scroll: "none" (not called), "loop", "returned"
    scrollErr,      \* the error scroll returned ("nil" for none)
    scrollSaw,      \* what the last iteration of scroll met
    self,           \* the pipeline whose Run is executing: 1 or 2
    other           \* the state of the pipeline that is not executing

vars == <<pc, attempt, idx, body, emails, emailsNil, emailStatus, emailSource,
          contactPages, browserFetcher, ctxDone, ret, ctxDoneAt, fetchErr, trace,
          lastErr, retErr, backoffs, fn, arg, res, browserPage, exitMonitor,
          placesCompleted, resp, result, maxDepth, scrollCount, staleCount,
          currentScrollHeight, scrollPc, scrollErr, scrollSaw, self, other>>

\* the state of fetchWithRetry that Run does not read, and the state of a helper call
retryVars == <<lastErr, retErr, backoffs>>
pureVars == <<fn, arg, res>>
\* the state of the job and of a second pipeline, which Run does not touch
jobVars == <<browserPage, exitMonitor, placesCompleted, resp, result>>

\* the state of scroll
scrollVars == <<maxDepth, scrollCount, staleCount, currentScrollHeight, scrollPc, scrollErr,
                scrollSaw>>

\* no response and no result: Process has not been called
NoResponse == [document |-> "nil", body |-> "nil", error |-> "nil"]
NoResult == [entry |-> "none", jobs |-> "none", err |-> "none"]
otherVars == <<self, other>>

entryVars == <<emails, emailsNil, emailStatus, emailSource>>

Fetchers == {"nil", "page", "mock"}

\* there is no second pipeline
NoRun == [pc |-> "none"]

\* the level of Run a position belongs to
Level(p) ==
    CASE p \in {"idle"} -> "before"
      [] p \in {"l1_fetch", "l1_backoff", "l1_extract"} -> "Level1"
      [] p \in {"l2_check", "l2_fetch", "l2_backoff", "l2_extract"} -> "Level2"
      [] p \in {"l3_home", "l3_home_extract", "l3_check", "l3_render", "l3_extract"} -> "Level3"
      [] OTHER -> "Done"

\* one call of fetchPage (op "get") or FetchWithBrowser (op "render");
\* sent tells whether the context was still live when the call was made
Event(op, lvl, url) == [op |-> op, lvl |-> lvl, url |-> url, sent |-> ~ctxDone]

Init ==
    /\ pc = "idle"
    /\ attempt = 0
    /\ idx = 1
    /\ body = NoBody
    /\ emails = <<>>
    /\ emailsNil = TRUE
    /\ emailStatus = ""
    /\ emailSource = ""
    /\ contactPages = <<>>
    /\ browserFetcher \in Fetchers
    /\ ctxDone = FALSE
    /\ ret = "none"
    /\ ctxDoneAt = ""
    /\ fetchErr = FALSE
    /\ trace = <<>>
    /\ lastErr = "nil"
    /\ retErr = "nil"
    /\ backoffs = <<>>
    /\ fn = ""
    /\ arg = <<>>
    /\ res = <<>>
    /\ browserPage = "nil"
    /\ exitMonitor = "nil"
    /\ placesCompleted = 0
    /\ resp = NoResponse
    /\ result = NoResult
    /\ maxDepth = 0
    /\ scrollCount = 0
    /\ staleCount = 0
    /\ currentScrollHeight = 0
    /\ scrollPc = "none"
    /\ scrollErr = "nil"
    /\ scrollSaw = ""
    /\ self = 1
    /\ other = NoRun

(***************************************************************************)
(* The terminal writes of Run.                                             *)
(***************************************************************************)
\* mutant: the fetch error is handed to the caller instead of being absorbed
ReturnTransportError ==
    /\ UNCHANGED <<emails, emailsNil, emailStatus, emailSource>>
    /\ pc' = "done"
    /\ ret' = "err"

\* the website_error return clearing the other two fields as well
ReturnWebsiteErrorCleared ==
    /\ emailStatus' = "website_error"
    /\ emails' = <<>>
    /\ emailsNil' = FALSE
    /\ emailSource' = ""
    /\ pc' = "done"
    /\ ret' = "nil"

\* p.entry.EmailStatus = "website_error"; return nil
ReturnWebsiteError ==
    /\ emailStatus' = "website_error"
    /\ UNCHANGED <<emails, emailsNil, emailSource>>
    /\ pc' = "done"
    /\ ret' = "nil"

\* mutant: the found path forgets to record the source
ReturnFoundNoSource(found, source) ==
    /\ emails' = found
    /\ emailsNil' = FALSE
    /\ emailStatus' = "found"
    /\ UNCHANGED emailSource
    /\ pc' = "done"
    /\ ret' = "nil"

\* p.entry.Emails = found; EmailStatus = "found"; EmailSource = source; return nil
ReturnFound(found, source) ==
    /\ emails' = found
    /\ emailsNil' = FALSE
    /\ emailStatus' = "found"
    /\ emailSource' = source
    /\ pc' = "done"
    /\ ret' = "nil"

\* p.entry.Emails = []string{}; EmailStatus = "not_found"; return nil
ReturnNotFound ==
    /\ emails' = <<>>
    /\ emailsNil' = FALSE
    /\ emailStatus' = "not_found"
    /\ UNCHANGED emailSource
    /\ pc' = "done"
    /\ ret' = "nil"

\* the context is done: the global timeout elapsed or the caller cancelled
CtxDone ==
    /\ pc # "done"
    /\ ~ctxDone
    /\ ctxDone' = TRUE
    /\ ctxDoneAt' = Level(pc)
    /\ UNCHANGED <<pc, attempt, idx, body, emails, emailsNil, emailStatus, emailSource,
                   contactPages, browserFetcher, ret, fetchErr, trace>>
    /\ UNCHANGED <<retryVars, pureVars, jobVars, scrollVars, otherVars>>

\* the error fetchPage returned in the given iteration of fetchWithRetry
AttemptErr(a) == <<"err0", "err1", "err2">>[a + 1]

\* mutant: every wait has the length of the first one
backoffFlat(a) == retryBackoff1

\* backoff := retryBackoff1; if attempt > 1 { backoff = retryBackoff2 }
backoff(a) == IF a > 1 THEN retryBackoff2 ELSE retryBackoff1

\* Run clearing the entry's fields on entry
RunEnterReset ==
    /\ pc = "idle"
    /\ pc' = "l1_fetch"
    /\ attempt' = 0
    /\ lastErr' = "nil"
    /\ backoffs' = <<>>
    /\ emails' = <<>>
    /\ emailsNil' = TRUE
    /\ emailStatus' = ""
    /\ emailSource' = ""
    /\ UNCHANGED retErr
    /\ UNCHANGED <<idx, body, contactPages, browserFetcher, ctxDone, ctxDoneAt, fetchErr, ret, trace>>
    /\ UNCHANGED <<pureVars, jobVars, scrollVars, otherVars>>

\* Run is called: ctx, cancel := context.WithTimeout(ctx, globalTimeout)
RunEnter ==
    /\ pc = "idle"
    /\ pc' = "l1_fetch"
    /\ attempt' = 0
    /\ lastErr' = "nil"
    /\ backoffs' = <<>>
    /\ UNCHANGED retErr
    /\ UNCHANGED <<idx, body, emails, emailsNil, emailStatus, emailSource,
                   contactPages, browserFetcher, ctxDone, ctxDoneAt, fetchErr, ret, trace>>
    /\ UNCHANGED <<pureVars, jobVars, scrollVars, otherVars>>

(***************************************************************************)
(* Level 1.                                                                *)
(***************************************************************************)
\* mutant: a homepage that stays unreachable does not end the run, Level 2 follows
L1FetchFallThrough ==
    /\ pc = "l1_fetch"
    /\ trace' = Append(trace, Event("get", 1, WebSite))
    /\ \/ /\ ~ctxDone
          /\ \E b \in HomeBodies : body' = b
          /\ fetchErr' = FALSE
          /\ retErr' = "nil"
          /\ UNCHANGED lastErr
          /\ pc' = "l1_extract"
          /\ UNCHANGED <<attempt, idx>>
       \/ /\ attempt < maxRetryLevel1
          /\ attempt' = attempt + 1
          /\ lastErr' = AttemptErr(attempt)
          /\ UNCHANGED retErr
          /\ pc' = "l1_backoff"
          /\ UNCHANGED <<body, fetchErr, idx>>
       \/ /\ attempt >= maxRetryLevel1
          /\ fetchErr' = TRUE
          /\ lastErr' = AttemptErr(attempt)
          /\ retErr' = lastErr'
          /\ idx' = 1
          /\ pc' = "l2_check"
          /\ UNCHANGED <<attempt, body>>
    /\ UNCHANGED <<emails, emailsNil, emailStatus, emailSource, ret,
                   contactPages, browserFetcher, ctxDone, ctxDoneAt, backoffs>>
    /\ UNCHANGED <<pureVars, jobVars, scrollVars, otherVars>>

\* fetchPage returning a body although the context is done
L1FetchIgnoresCtx ==
    /\ pc = "l1_fetch"
    /\ trace' = Append(trace, Event("get", 1, WebSite))
    /\ \/ /\ \E b \in HomeBodies : body' = b
          /\ fetchErr' = FALSE
          /\ retErr' = "nil"
          /\ UNCHANGED lastErr
          /\ pc' = "l1_extract"
          /\ UNCHANGED <<attempt, emails, emailsNil, emailStatus, emailSource, ret>>
       \/ /\ attempt < maxRetryLevel1
          /\ attempt' = attempt + 1
          /\ lastErr' = AttemptErr(attempt)
          /\ UNCHANGED retErr
          /\ pc' = "l1_backoff"
          /\ UNCHANGED <<body, fetchErr, emails, emailsNil, emailStatus, emailSource, ret>>
       \/ /\ attempt >= maxRetryLevel1
          /\ fetchErr' = TRUE
          /\ lastErr' = AttemptErr(attempt)
          /\ retErr' = lastErr'
          /\ ReturnWebsiteError
          /\ UNCHANGED <<attempt, body>>
    /\ UNCHANGED <<idx, contactPages, browserFetcher, ctxDone, ctxDoneAt, backoffs>>
    /\ UNCHANGED <<pureVars, jobVars, scrollVars, otherVars>>

\* one attempt of fetchWithRetry(ctx, WebSite, maxRetryLevel1): fetchPage
L1Fetch ==
    /\ pc = "l1_fetch"
    /\ trace' = Append(trace, Event("get", 1, WebSite))
    /\ \/ \* fetchPage returns a body: fetchWithRetry returns it
          /\ ~ctxDone
          /\ \E b \in HomeBodies : body' = b
          /\ fetchErr' = FALSE
          /\ retErr' = "nil"
          /\ UNCHANGED lastErr
          /\ pc' = "l1_extract"
          /\ UNCHANGED <<attempt, emails, emailsNil, emailStatus, emailSource, ret>>
       \/ \* fetchPage fails and another attempt is left
          /\ attempt < maxRetryLevel1
          /\ attempt' = attempt + 1
          /\ lastErr' = AttemptErr(attempt)
          /\ UNCHANGED retErr
          /\ pc' = "l1_backoff"
          /\ UNCHANGED <<body, fetchErr, emails, emailsNil, emailStatus, emailSource, ret>>
       \/ \* fetchPage fails on the last attempt: fetchWithRetry returns lastErr
          /\ attempt >= maxRetryLevel1
          /\ fetchErr' = TRUE
          /\ lastErr' = AttemptErr(attempt)
          /\ retErr' = lastErr'
          /\ ReturnWebsiteError
          /\ UNCHANGED <<attempt, body>>
    /\ UNCHANGED <<idx, contactPages, browserFetcher, ctxDone, ctxDoneAt, backoffs>>
    /\ UNCHANGED <<pureVars, jobVars, scrollVars, otherVars>>

\* mutant: a done context does not end the wait, which starts over
L1BackoffStuck ==
    /\ pc = "l1_backoff"
    /\ IF ctxDone
       THEN UNCHANGED <<pc, backoffs>>
       ELSE /\ pc' = "l1_fetch"
            /\ backoffs' = Append(backoffs, backoff(attempt))
    /\ UNCHANGED <<fetchErr, retErr, emails, emailsNil, emailStatus, emailSource, ret>>
    /\ UNCHANGED lastErr
    /\ UNCHANGED <<attempt, idx, body, contactPages, browserFetcher, ctxDone, ctxDoneAt, trace>>
    /\ UNCHANGED <<pureVars, jobVars, scrollVars, otherVars>>

\* the select between ctx.Done() and time.After(backoff) before a retry
L1Backoff ==
    /\ pc = "l1_backoff"
    /\ IF ctxDone
       THEN /\ fetchErr' = TRUE
            /\ retErr' = "ctx"
            /\ ReturnWebsiteError
            /\ UNCHANGED backoffs
       ELSE /\ pc' = "l1_fetch"
            /\ backoffs' = Append(backoffs, backoff(attempt))
            /\ UNCHANGED <<fetchErr, retErr, emails, emailsNil, emailStatus, emailSource, ret>>
    /\ UNCHANGED lastErr
    /\ UNCHANGED <<attempt, idx, body, contactPages, browserFetcher, ctxDone, ctxDoneAt, trace>>
    /\ UNCHANGED <<pureVars, jobVars, scrollVars, otherVars>>

\* mutant: a single address on the homepage is not taken as a result
L1ExtractNeedsTwo ==
    /\ pc = "l1_extract"
    /\ LET found == extractEmails(body) IN
       IF Len(found) > 1
       THEN /\ ReturnFound(found, "homepage")
            /\ UNCHANGED <<contactPages, idx>>
       ELSE /\ contactPages' = IF extractDocOk(body)
                               THEN discoverContactPages(body, WebSite)
                               ELSE contactPages
            /\ idx' = 1
            /\ pc' = "l2_check"
            /\ UNCHANGED <<emails, emailsNil, emailStatus, emailSource, ret>>
    /\ body' = NoBody
    /\ UNCHANGED <<attempt, browserFetcher, ctxDone, ctxDoneAt, fetchErr, trace>>
    /\ UNCHANGED <<retryVars, pureVars, jobVars, scrollVars, otherVars>>

\* the discovered pages kept in a variable all pipelines share
L1ExtractSharedPages ==
    /\ pc = "l1_extract"
    /\ LET found == extractEmails(body) IN
       IF Len(found) > 0
       THEN /\ ReturnFound(found, "homepage")
            /\ UNCHANGED <<contactPages, idx>>
       ELSE /\ contactPages' = IF extractDocOk(body)
                               THEN discoverContactPages(body, WebSite)
                               ELSE contactPages
            /\ idx' = 1
            /\ pc' = "l2_check"
            /\ UNCHANGED <<emails, emailsNil, emailStatus, emailSource, ret>>
    /\ other' = IF other = NoRun THEN other ELSE [other EXCEPT !.contactPages = contactPages']
    /\ body' = NoBody
    /\ UNCHANGED <<attempt, browserFetcher, ctxDone, ctxDoneAt, fetchErr, trace>>
    /\ UNCHANGED <<retryVars, pureVars, jobVars, scrollVars, self>>

\* emails, doc := p.extractEmails(body) and the discovery of contact pages
L1Extract ==
    /\ pc = "l1_extract"
    /\ LET found == extractEmails(body) IN
       IF Len(found) > 0
       THEN /\ ReturnFound(found, "homepage")
            /\ UNCHANGED <<contactPages, idx>>
       ELSE /\ contactPages' = IF extractDocOk(body)
                               THEN discoverContactPages(body, WebSite)
                               ELSE contactPages
            /\ idx' = 1
            /\ pc' = "l2_check"
            /\ UNCHANGED <<emails, emailsNil, emailStatus, emailSource, ret>>
    /\ body' = NoBody
    /\ UNCHANGED <<attempt, browserFetcher, ctxDone, ctxDoneAt, fetchErr, trace>>
    /\ UNCHANGED <<retryVars, pureVars, jobVars, scrollVars, otherVars>>

(***************************************************************************)
(* Level 2.                                                                *)
(***************************************************************************)
\* mutant: Level 3 is entered without testing p.browserFetcher
L2CheckAlwaysLevel3 ==
    /\ pc = "l2_check"
    /\ IF idx > Len(contactPages)
       THEN /\ pc' = "l3_home"
            /\ UNCHANGED <<emails, emailsNil, emailStatus, emailSource, ret, attempt>>
       ELSE IF ctxDone
            THEN /\ ReturnNotFound
                 /\ UNCHANGED attempt
            ELSE /\ pc' = "l2_fetch"
                 /\ attempt' = 0
                 /\ UNCHANGED <<emails, emailsNil, emailStatus, emailSource, ret>>
    /\ IF pc' = "l2_fetch"
       THEN lastErr' = "nil" /\ backoffs' = <<>>
       ELSE UNCHANGED <<lastErr, backoffs>>
    /\ UNCHANGED retErr
    /\ UNCHANGED <<idx, body, contactPages, browserFetcher, ctxDone, ctxDoneAt, fetchErr, trace>>
    /\ UNCHANGED <<pureVars, jobVars, scrollVars, otherVars>>

\* head of "for _, pageURL := range p.contactPages" with its select on ctx.Done();
\* when the range is exhausted, the test of p.browserFetcher that follows it
L2Check ==
    /\ pc = "l2_check"
    /\ IF idx > Len(contactPages)
       THEN IF browserFetcher # "nil"
            THEN /\ pc' = "l3_home"
                 /\ UNCHANGED <<emails, emailsNil, emailStatus, emailSource, ret, attempt>>
            ELSE /\ ReturnNotFound
                 /\ UNCHANGED attempt
       ELSE IF ctxDone
            THEN /\ ReturnNotFound
                 /\ UNCHANGED attempt
            ELSE /\ pc' = "l2_fetch"
                 /\ attempt' = 0
                 /\ UNCHANGED <<emails, emailsNil, emailStatus, emailSource, ret>>
    /\ IF pc' = "l2_fetch"
       THEN lastErr' = "nil" /\ backoffs' = <<>>
       ELSE UNCHANGED <<lastErr, backoffs>>
    /\ UNCHANGED retErr
    /\ UNCHANGED <<idx, body, contactPages, browserFetcher, ctxDone, ctxDoneAt, fetchErr, trace>>
    /\ UNCHANGED <<pureVars, jobVars, scrollVars, otherVars>>

\* mutant: a contact page that cannot be fetched ends the run like the homepage
L2FetchFatal ==
    /\ pc = "l2_fetch"
    /\ trace' = Append(trace, Event("get", 2, contactPages[idx]))
    /\ \/ /\ ~ctxDone
          /\ \E b \in PageBodies : body' = b
          /\ fetchErr' = FALSE
          /\ retErr' = "nil"
          /\ UNCHANGED lastErr
          /\ pc' = "l2_extract"
          /\ UNCHANGED <<attempt, idx, emails, emailsNil, emailStatus, emailSource, ret>>
       \/ /\ attempt < maxRetryLevel2
          /\ attempt' = attempt + 1
          /\ lastErr' = AttemptErr(attempt)
          /\ UNCHANGED retErr
          /\ pc' = "l2_backoff"
          /\ UNCHANGED <<body, idx, fetchErr, emails, emailsNil, emailStatus, emailSource, ret>>
       \/ /\ attempt >= maxRetryLevel2
          /\ fetchErr' = TRUE
          /\ lastErr' = AttemptErr(attempt)
          /\ retErr' = lastErr'
          /\ ReturnWebsiteError
          /\ UNCHANGED <<attempt, body, idx>>
    /\ UNCHANGED <<contactPages, browserFetcher, ctxDone, ctxDoneAt, backoffs>>
    /\ UNCHANGED <<pureVars, jobVars, scrollVars, otherVars>>

\* mutant: the retry loop of a contact page runs once more than maxRetries allows
L2FetchOnceMore ==
    /\ pc = "l2_fetch"
    /\ trace' = Append(trace, Event("get", 2, contactPages[idx]))
    /\ \/ \* fetchPage returns a body: fetchWithRetry returns it
          /\ ~ctxDone
          /\ \E b \in PageBodies : body' = b
          /\ fetchErr' = FALSE
          /\ retErr' = "nil"
          /\ UNCHANGED lastErr
          /\ pc' = "l2_extract"
          /\ UNCHANGED <<attempt, idx>>
       \/ \* fetchPage fails and another attempt is left
          /\ attempt < maxRetryLevel2 + 1
          /\ attempt' = attempt + 1
          /\ lastErr' = AttemptErr(attempt)
          /\ UNCHANGED retErr
          /\ pc' = "l2_backoff"
          /\ UNCHANGED <<body, idx, fetchErr>>
       \/ \* fetchPage fails on the last attempt: continue with the next page
          /\ attempt >= maxRetryLevel2 + 1
          /\ fetchErr' = TRUE
          /\ lastErr' = AttemptErr(attempt)
          /\ retErr' = lastErr'
          /\ idx' = idx + 1
          /\ pc' = "l2_check"
          /\ UNCHANGED <<attempt, body>>
    /\ UNCHANGED <<emails, emailsNil, emailStatus, emailSource, ret,
                   contactPages, browserFetcher, ctxDone, ctxDoneAt, backoffs>>
    /\ UNCHANGED <<pureVars, jobVars, scrollVars, otherVars>>

\* one attempt of fetchWithRetry(ctx, pageURL, maxRetryLevel2): fetchPage
L2Fetch ==
    /\ pc = "l2_fetch"
    /\ trace' = Append(trace, Event("get", 2, contactPages[idx]))
    /\ \/ \* fetchPage returns a body: fetchWithRetry returns it
          /\ ~ctxDone
          /\ \E b \in PageBodies : body' = b
          /\ fetchErr' = FALSE
          /\ retErr' = "nil"
          /\ UNCHANGED lastErr
          /\ pc' = "l2_extract"
          /\ UNCHANGED <<attempt, idx>>
       \/ \* fetchPage fails and another attempt is left
          /\ attempt < maxRetryLevel2
          /\ attempt' = attempt + 1
          /\ lastErr' = AttemptErr(attempt)
          /\ UNCHANGED retErr
          /\ pc' = "l2_backoff"
          /\ UNCHANGED <<body, idx, fetchErr>>
       \/ \* fetchPage fails on the last attempt: continue with the next page
          /\ attempt >= maxRetryLevel2
          /\ fetchErr' = TRUE
          /\ lastErr' = AttemptErr(attempt)
          /\ retErr' = lastErr'
          /\ idx' = idx + 1
          /\ pc' = "l2_check"
          /\ UNCHANGED <<attempt, body>>
    /\ UNCHANGED <<emails, emailsNil, emailStatus, emailSource, ret,
                   contactPages, browserFetcher, ctxDone, ctxDoneAt, backoffs>>
    /\ UNCHANGED <<pureVars, jobVars, scrollVars, otherVars>>

\* mutant: a done context during the backoff leaves the loop over the pages
L2BackoffBreak ==
    /\ pc = "l2_backoff"
    /\ IF ctxDone
       THEN /\ fetchErr' = TRUE
            /\ idx' = Len(contactPages) + 1
            /\ pc' = "l2_check"
            /\ retErr' = "ctx"
            /\ UNCHANGED backoffs
       ELSE /\ pc' = "l2_fetch"
            /\ backoffs' = Append(backoffs, backoff(attempt))
            /\ UNCHANGED <<idx, fetchErr, retErr>>
    /\ UNCHANGED lastErr
    /\ UNCHANGED <<attempt, body, emails, emailsNil, emailStatus, emailSource,
                   contactPages, browserFetcher, ctxDone, ctxDoneAt, ret, trace>>
    /\ UNCHANGED <<pureVars, jobVars, scrollVars, otherVars>>

\* the select between ctx.Done() and time.After(backoff) before a retry
L2Backoff ==
    /\ pc = "l2_backoff"
    /\ IF ctxDone
       THEN /\ fetchErr' = TRUE
            /\ idx' = idx + 1
            /\ pc' = "l2_check"
            /\ retErr' = "ctx"
            /\ UNCHANGED backoffs
       ELSE /\ pc' = "l2_fetch"
            /\ backoffs' = Append(backoffs, backoff(attempt))
            /\ UNCHANGED <<idx, fetchErr, retErr>>
    /\ UNCHANGED lastErr
    /\ UNCHANGED <<attempt, body, emails, emailsNil, emailStatus, emailSource,
                   contactPages, browserFetcher, ctxDone, ctxDoneAt, ret, trace>>
    /\ UNCHANGED <<pureVars, jobVars, scrollVars, otherVars>>

\* mutant: the result of a contact page is stored but the loop goes on
L2ExtractContinue ==
    /\ pc = "l2_extract"
    /\ LET found == extractEmails(body) IN
       IF Len(found) > 0
       THEN /\ emails' = found
            /\ emailsNil' = FALSE
            /\ emailStatus' = "found"
            /\ emailSource' = "contact_page"
            /\ UNCHANGED ret
       ELSE UNCHANGED <<emails, emailsNil, emailStatus, emailSource, ret>>
    /\ idx' = idx + 1
    /\ pc' = "l2_check"
    /\ body' = NoBody
    /\ UNCHANGED <<attempt, contactPages, browserFetcher, ctxDone, ctxDoneAt, fetchErr, trace>>
    /\ UNCHANGED <<retryVars, pureVars, jobVars, scrollVars, otherVars>>

\* pageEmails, _ := p.extractEmails(pageBody)
L2Extract ==
    /\ pc = "l2_extract"
    /\ LET found == extractEmails(body) IN
       IF Len(found) > 0
       THEN /\ ReturnFound(found, "contact_page")
            /\ UNCHANGED idx
       ELSE /\ idx' = idx + 1
            /\ pc' = "l2_check"
            /\ UNCHANGED <<emails, emailsNil, emailStatus, emailSource, ret>>
    /\ body' = NoBody
    /\ UNCHANGED <<attempt, contactPages, browserFetcher, ctxDone, ctxDoneAt, fetchErr, trace>>
    /\ UNCHANGED <<retryVars, pureVars, jobVars, scrollVars, otherVars>>

(***************************************************************************)
(* Level 3.                                                                *)
(***************************************************************************)
\* what FetchWithBrowser may return: an error ("err"), "" ("empty") or html.
\* pageBrowserFetcher returns ctx.Err() without navigating when ctx is done;
\* any other implementation of the interface is free to ignore ctx.
RenderResult(k, b) == [kind |-> k, html |-> b]

\* what one call of pageBrowserFetcher.FetchWithBrowser meets: the context
\* done or not, page.Goto failing or not, page.Content failing or giving
\* the content (NoBody for "")
Navigations ==
    [ctxDone : BOOLEAN, gotoErr : BOOLEAN, contentErr : BOOLEAN, content : {NoBody} \cup PageBodies]

Rendered(k, b, e, n) == [kind |-> k, html |-> b, err |-> e, nav |-> n]

\* FetchWithBrowser navigating without a look at the context
FetchWithBrowserNoCheck(w) ==
    IF w.gotoErr THEN Rendered("err", NoBody, "goto", TRUE)
    ELSE IF w.contentErr THEN Rendered("err", NoBody, "content", TRUE)
    ELSE IF w.content = NoBody THEN Rendered("empty", NoBody, "nil", TRUE)
    ELSE Rendered("html", w.content, "nil", TRUE)

\* select on ctx.Done(): return "", ctx.Err(); else page.Goto(url), the extra
\* wait, and return page.Content().  nav tells whether Goto was called.
FetchWithBrowser(w) ==
    IF w.ctxDone THEN Rendered("err", NoBody, "ctx", FALSE)
    ELSE IF w.gotoErr THEN Rendered("err", NoBody, "goto", TRUE)
    ELSE IF w.contentErr THEN Rendered("err", NoBody, "content", TRUE)
    ELSE IF w.content = NoBody THEN Rendered("empty", NoBody, "nil", TRUE)
    ELSE Rendered("html", w.content, "nil", TRUE)

RenderOutcomes ==
    IF browserFetcher = "page"
    THEN {RenderResult(r.kind, r.html) :
             r \in {FetchWithBrowser(w) : w \in {n \in Navigations : n.ctxDone = ctxDone}}}
    ELSE {RenderResult("err", NoBody), RenderResult("empty", NoBody)}
         \cup {RenderResult("html", b) : b \in PageBodies}

\* a rendered homepage without address carrying links the static one lacks
RenderedHome == LinkDoc(4)

\* what FetchWithBrowser may return for the homepage
HomeRenderOutcomes ==
    IF browserFetcher = "page" /\ ctxDone THEN RenderOutcomes
    ELSE RenderOutcomes \cup {RenderResult("html", RenderedHome)}

\* mutant: every retained page is rendered
browserLimitAll == Len(contactPages)

\* limit := 3; if len(p.contactPages) < limit { limit = len(p.contactPages) }
browserLimit ==
    IF Len(contactPages) < browserPageLimit THEN Len(contactPages) ELSE browserPageLimit

\* the homepage render tried a second time after an error
L3HomeRetry ==
    /\ pc = "l3_home"
    /\ \E out \in HomeRenderOutcomes :
          /\ trace' = Append(trace, Event("render", 3, WebSite))
          /\ IF out.kind = "err" /\ trace[Len(trace)].op # "render"
             THEN /\ pc' = "l3_home"
                  /\ UNCHANGED body
             ELSE IF out.kind \in {"err", "empty"}
             THEN /\ pc' = "l3_check"
                  /\ UNCHANGED body
             ELSE /\ body' = out.html
                  /\ pc' = "l3_home_extract"
    /\ idx' = 1
    /\ UNCHANGED <<attempt, emails, emailsNil, emailStatus, emailSource,
                   contactPages, browserFetcher, ctxDone, ctxDoneAt, fetchErr, ret>>
    /\ UNCHANGED <<retryVars, pureVars, jobVars, scrollVars, otherVars>>

\* html, browserErr := p.browserFetcher.FetchWithBrowser(ctx, p.entry.WebSite)
L3Home ==
    /\ pc = "l3_home"
    /\ \E out \in HomeRenderOutcomes :
          /\ trace' = Append(trace, Event("render", 3, WebSite))
          /\ IF out.kind \in {"err", "empty"}
             THEN /\ pc' = "l3_check"
                  /\ UNCHANGED body
             ELSE /\ body' = out.html
                  /\ pc' = "l3_home_extract"
    /\ idx' = 1
    /\ UNCHANGED <<attempt, emails, emailsNil, emailStatus, emailSource,
                   contactPages, browserFetcher, ctxDone, ctxDoneAt, fetchErr, ret>>
    /\ UNCHANGED <<retryVars, pureVars, jobVars, scrollVars, otherVars>>

\* browserEmails, _ := p.extractEmails([]byte(html)) for the rendered homepage
L3HomeExtract ==
    /\ pc = "l3_home_extract"
    /\ LET found == extractEmails(body) IN
       IF Len(found) > 0
       THEN ReturnFound(found, "browser_homepage")
       ELSE /\ pc' = "l3_check"
            /\ UNCHANGED <<emails, emailsNil, emailStatus, emailSource, ret>>
    /\ body' = NoBody
    /\ UNCHANGED <<attempt, idx, contactPages, browserFetcher, ctxDone, ctxDoneAt, fetchErr, trace>>
    /\ UNCHANGED <<retryVars, pureVars, jobVars, scrollVars, otherVars>>

\* mutant: the loop over the rendered pages does not look at the context
L3CheckNoDeadline ==
    /\ pc = "l3_check"
    /\ IF idx > browserLimit
       THEN ReturnNotFound
       ELSE /\ pc' = "l3_render"
            /\ UNCHANGED <<emails, emailsNil, emailStatus, emailSource, ret>>
    /\ UNCHANGED <<attempt, idx, body, contactPages, browserFetcher, ctxDone, ctxDoneAt, fetchErr, trace>>
    /\ UNCHANGED <<retryVars, pureVars, jobVars, scrollVars, otherVars>>

\* head of "for i := 0; i < limit; i++" with its select on ctx.Done();
\* when the loop is over, the final "nothing found" write
L3Check ==
    /\ pc = "l3_check"
    /\ IF idx > browserLimit \/ ctxDone
       THEN ReturnNotFound
       ELSE /\ pc' = "l3_render"
            /\ UNCHANGED <<emails, emailsNil, emailStatus, emailSource, ret>>
    /\ UNCHANGED <<attempt, idx, body, contactPages, browserFetcher, ctxDone, ctxDoneAt, fetchErr, trace>>
    /\ UNCHANGED <<retryVars, pureVars, jobVars, scrollVars, otherVars>>

\* the render of the next page started together with that of the current one
L3RenderAhead ==
    /\ pc = "l3_render"
    /\ \E out \in RenderOutcomes :
          /\ trace' = IF idx < browserLimit
                      THEN Append(Append(trace, Event("render", 3, contactPages[idx])),
                                  Event("render", 3, contactPages[idx + 1]))
                      ELSE Append(trace, Event("render", 3, contactPages[idx]))
          /\ IF out.kind \in {"err", "empty"}
             THEN /\ idx' = idx + 1
                  /\ pc' = "l3_check"
                  /\ UNCHANGED body
             ELSE /\ body' = out.html
                  /\ pc' = "l3_extract"
                  /\ UNCHANGED idx
    /\ UNCHANGED <<attempt, emails, emailsNil, emailStatus, emailSource,
                   contactPages, browserFetcher, ctxDone, ctxDoneAt, fetchErr, ret>>
    /\ UNCHANGED <<retryVars, pureVars, jobVars, scrollVars, otherVars>>

\* pageHTML, browserErr := p.browserFetcher.FetchWithBrowser(ctx, p.contactPages[i])
L3Render ==
    /\ pc = "l3_render"
    /\ \E out \in RenderOutcomes :
          /\ trace' = Append(trace, Event("render", 3, contactPages[idx]))
          /\ IF out.kind \in {"err", "empty"}
             THEN /\ idx' = idx + 1
                  /\ pc' = "l3_check"
                  /\ UNCHANGED body
             ELSE /\ body' = out.html
                  /\ pc' = "l3_extract"
                  /\ UNCHANGED idx
    /\ UNCHANGED <<attempt, emails, emailsNil, emailStatus, emailSource,
                   contactPages, browserFetcher, ctxDone, ctxDoneAt, fetchErr, ret>>
    /\ UNCHANGED <<retryVars, pureVars, jobVars, scrollVars, otherVars>>

\* browserEmails, _ := p.extractEmails([]byte(pageHTML)) for a rendered contact page
L3Extract ==
    /\ pc = "l3_extract"
    /\ LET found == extractEmails(body) IN
       IF Len(found) > 0
       THEN /\ ReturnFound(found, "browser_contact_page")
            /\ UNCHANGED idx
       ELSE /\ idx' = idx + 1
            /\ pc' = "l3_check"
            /\ UNCHANGED <<emails, emailsNil, emailStatus, emailSource, ret>>
    /\ body' = NoBody
    /\ UNCHANGED <<attempt, contactPages, browserFetcher, ctxDone, ctxDoneAt, fetchErr, trace>>
    /\ UNCHANGED <<retryVars, pureVars, jobVars, scrollVars, otherVars>>

\* the steps of Run itself
RunStep ==
    \/ RunEnter
    \/ L1Fetch
    \/ L1Backoff
    \/ L1Extract
    \/ L2Check
    \/ L2Fetch
    \/ L2Backoff
    \/ L2Extract
    \/ L3Home
    \/ L3HomeExtract
    \/ L3Check
    \/ L3Render
    \/ L3Extract

Next ==
    \/ CtxDone
    \/ RunEnter
    \/ L1Fetch
    \/ L1Backoff
    \/ L1Extract
    \/ L2Check
    \/ L2Fetch
    \/ L2Backoff
    \/ L2Extract
    \/ L3Home
    \/ L3HomeExtract
    \/ L3Check
    \/ L3Render
    \/ L3Extract

Spec == Init /\ [][Next]_vars

\* the steps of Run that follow a call that can block: a fetchPage attempt,
\* a backoff wait, a FetchWithBrowser call (and the loop heads between them)
FetchStep ==
    \/ RunEnter
    \/ L1Fetch
    \/ L1Backoff
    \/ L2Check
    \/ L2Fetch
    \/ L2Backoff
    \/ L3Home
    \/ L3Check
    \/ L3Render

\* extractEmails and discoverContactPages are computations without a wait:
\* Run leaves the position where it extracts
ExtractReturns ==
    /\ pc \in {"l1_extract", "l2_extract", "l3_home_extract", "l3_extract"}
    /\ pc' \in {"done", "l2_check", "l3_check"}

\* every HTTP attempt, backoff wait and render call returns, so the step of
\* Run that follows it is taken, and every extraction returns; the context
\* need never become done
SpecLive == Init /\ [][Next]_vars /\ WF_vars(FetchStep) /\ WF_pc(ExtractReturns)

(***************************************************************************)
(* EmailExtractJob: BrowserActions, then Process, which builds the         *)
(* pipeline and calls Run.  pc is "job_new" for a new job, "job_ready"     *)
(* once BrowserActions returned, "job_done" once Process returned.         *)
(***************************************************************************)
JobPcs == {"job_new", "job_ready", "job_done"}

InitJob ==
    /\ pc = "job_new"
    /\ attempt = 0
    /\ idx = 1
    /\ body = NoBody
    /\ emails = <<>>
    /\ emailsNil = TRUE
    /\ emailStatus = ""
    /\ emailSource = ""
    /\ contactPages = <<>>
    /\ browserFetcher = "nil"
    /\ ctxDone = FALSE
    /\ ret = "none"
    /\ ctxDoneAt = ""
    /\ fetchErr = FALSE
    /\ trace = <<>>
    /\ lastErr = "nil"
    /\ retErr = "nil"
    /\ backoffs = <<>>
    /\ fn = ""
    /\ arg = <<>>
    /\ res = <<>>
    /\ browserPage = "nil"
    /\ exitMonitor \in {"nil", "set"}
    /\ placesCompleted = 0
    /\ resp = NoResponse
    /\ result = NoResult
    /\ maxDepth = 0
    /\ scrollCount = 0
    /\ staleCount = 0
    /\ currentScrollHeight = 0
    /\ scrollPc = "none"
    /\ scrollErr = "nil"
    /\ scrollSaw = ""
    /\ self = 1
    /\ other = NoRun

\* the responses the framework hands to Process: the one BrowserActions
\* returned (scrapemate.Response{}) when it was invoked, else that of the
\* framework's own fetch, which succeeded or failed (ProcessOnFetchError)
ResponsesAt(p) ==
    IF p = "job_ready"
    THEN {NoResponse}
    ELSE {[document |-> "doc", body |-> "bytes", error |-> "nil"],
          [document |-> "nil", body |-> "nil", error |-> "err"]}

\* j.browserPage = page, for the page the framework hands over (nil or not);
\* return scrapemate.Response{}
BrowserActions ==
    /\ pc = "job_new"
    /\ \E page \in {"nil", "page"} : browserPage' = page
    /\ resp' = NoResponse
    /\ pc' = "job_ready"
    /\ UNCHANGED <<exitMonitor, placesCompleted, result>>
    /\ UNCHANGED <<attempt, idx, body, emails, emailsNil, emailStatus, emailSource, contactPages,
                   browserFetcher, ctxDone, ret, ctxDoneAt, fetchErr, trace, lastErr, retErr,
                   backoffs>>
    /\ UNCHANGED <<pureVars, scrollVars, otherVars>>

\* Process building the pipeline without a fetcher whatever j.browserPage is
ProcessNoFetcher ==
    /\ pc \in {"job_new", "job_ready"}
    /\ browserFetcher' = "nil"
    /\ pc' = "idle"
    /\ \E r \in ResponsesAt(pc) : resp' = r
    /\ UNCHANGED <<browserPage, exitMonitor, placesCompleted, result>>
    /\ UNCHANGED <<attempt, idx, body, emails, emailsNil, emailStatus, emailSource, contactPages,
                   ctxDone, ret, ctxDoneAt, fetchErr, trace, lastErr, retErr, backoffs>>
    /\ UNCHANGED <<pureVars, scrollVars, otherVars>>

\* Process up to the call of Run: the fetcher wraps j.browserPage when it is
\* not nil; pipeline := NewEmailPipeline(j.Entry, fetcher)
Process ==
    /\ pc \in {"job_new", "job_ready"}
    /\ browserFetcher' = IF browserPage # "nil" THEN "page" ELSE "nil"
    /\ pc' = "idle"
    /\ \E r \in ResponsesAt(pc) : resp' = r
    /\ UNCHANGED <<browserPage, exitMonitor, placesCompleted, result>>
    /\ UNCHANGED <<attempt, idx, body, emails, emailsNil, emailStatus, emailSource, contactPages,
                   ctxDone, ret, ctxDoneAt, fetchErr, trace, lastErr, retErr, backoffs>>
    /\ UNCHANGED <<pureVars, scrollVars, otherVars>>

\* Process counting the place only when the pipeline found an address
ProcessReturnCountsFound ==
    /\ pc = "done"
    /\ IF ret = "err"
       THEN emails' = <<>> /\ emailsNil' = FALSE /\ emailStatus' = "website_error"
       ELSE UNCHANGED <<emails, emailsNil, emailStatus>>
    /\ result' = [entry |-> "j.Entry", jobs |-> "nil", err |-> "nil"]
    /\ placesCompleted' = IF exitMonitor # "nil" /\ emailStatus' = "found"
                          THEN placesCompleted + 1 ELSE placesCompleted
    /\ resp' = [resp EXCEPT !.document = "nil", !.body = "nil"]
    /\ pc' = "job_done"
    /\ UNCHANGED <<attempt, idx, body, emailSource, contactPages, browserFetcher,
                   ctxDone, ret, ctxDoneAt, fetchErr, trace, lastErr, retErr, backoffs>>
    /\ UNCHANGED <<browserPage, exitMonitor>>
    /\ UNCHANGED <<pureVars, scrollVars, otherVars>>

\* Process after Run returned: an error of Run becomes website_error; return
\* j.Entry, nil, nil; then the deferred functions, last registered first:
\* IncrPlacesCompleted(1) when a monitor is set, resp.Document = nil and
\* resp.Body = nil
ProcessReturn ==
    /\ pc = "done"
    /\ IF ret = "err"
       THEN emails' = <<>> /\ emailsNil' = FALSE /\ emailStatus' = "website_error"
       ELSE UNCHANGED <<emails, emailsNil, emailStatus>>
    /\ result' = [entry |-> "j.Entry", jobs |-> "nil", err |-> "nil"]
    /\ placesCompleted' = IF exitMonitor # "nil" THEN placesCompleted + 1 ELSE placesCompleted
    /\ resp' = [resp EXCEPT !.document = "nil", !.body = "nil"]
    /\ pc' = "job_done"
    /\ UNCHANGED <<attempt, idx, body, emailSource, contactPages, browserFetcher,
                   ctxDone, ret, ctxDoneAt, fetchErr, trace, lastErr, retErr, backoffs>>
    /\ UNCHANGED <<browserPage, exitMonitor>>
    /\ UNCHANGED <<pureVars, scrollVars, otherVars>>

\* the context of Process is done while Run executes
JobCtxDone == pc \notin JobPcs /\ CtxDone

NextJob ==
    \/ BrowserActions
    \/ Process
    \/ RunStep
    \/ JobCtxDone
    \/ ProcessReturn

SpecJob == InitJob /\ [][NextJob]_vars

(***************************************************************************)
(* scroll: the loop that scrolls the result list.  A step is one pass of   *)
(* the for statement, its condition included.                              *)
(***************************************************************************)
maxStaleRetries == 3

\* bounds: the depth asked for and the heights the page reports
MaxDepth == 4
MaxHeight == 2

InitScroll ==
    /\ pc = "idle"
    /\ attempt = 0
    /\ idx = 1
    /\ body = NoBody
    /\ emails = <<>>
    /\ emailsNil = TRUE
    /\ emailStatus = ""
    /\ emailSource = ""
    /\ contactPages = <<>>
    /\ browserFetcher = "nil"
    /\ ctxDone = FALSE
    /\ ret = "none"
    /\ ctxDoneAt = ""
    /\ fetchErr = FALSE
    /\ trace = <<>>
    /\ lastErr = "nil"
    /\ retErr = "nil"
    /\ backoffs = <<>>
    /\ fn = ""
    /\ arg = <<>>
    /\ res = <<>>
    /\ browserPage = "nil"
    /\ exitMonitor = "nil"
    /\ placesCompleted = 0
    /\ resp = NoResponse
    /\ result = NoResult
    /\ maxDepth \in 0..MaxDepth
    /\ scrollCount = 0
    /\ staleCount = 0
    /\ currentScrollHeight = 0
    /\ scrollPc = "loop"
    /\ scrollErr = "nil"
    /\ scrollSaw = ""
    /\ self = 1
    /\ other = NoRun

\* return scrollCount, err
ScrollReturn(saw, err) ==
    /\ scrollPc' = "returned"
    /\ scrollSaw' = saw
    /\ scrollErr' = err

\* a pass in which new content does not reset the stale counter
ScrollStepNoReset ==
    /\ scrollPc = "loop"
    /\ IF ~(scrollCount < maxDepth)
       THEN /\ ScrollReturn("depth", "nil")
            /\ UNCHANGED <<scrollCount, staleCount, currentScrollHeight>>
       ELSE \/ /\ ScrollReturn("ctx", "nil")
               /\ UNCHANGED <<scrollCount, staleCount, currentScrollHeight>>
            \/ /\ \E e \in {"eval", "type"} : ScrollReturn(e, e)
               /\ UNCHANGED <<scrollCount, staleCount, currentScrollHeight>>
            \/ \E height \in 0..MaxHeight :
                  IF height = currentScrollHeight
                  THEN /\ staleCount' = staleCount + 1
                       /\ IF staleCount' >= maxStaleRetries
                          THEN ScrollReturn("stale", "nil")
                          ELSE scrollSaw' = "stale" /\ UNCHANGED <<scrollPc, scrollErr>>
                       /\ UNCHANGED <<scrollCount, currentScrollHeight>>
                  ELSE /\ UNCHANGED staleCount
                       /\ currentScrollHeight' = height
                       /\ scrollCount' = scrollCount + 1
                       /\ \E isEnd \in BOOLEAN :
                             IF isEnd
                             THEN ScrollReturn("end", "nil")
                             ELSE scrollSaw' = "progress" /\ UNCHANGED <<scrollPc, scrollErr>>
    /\ UNCHANGED <<pc, attempt, idx, body, emails, emailsNil, emailStatus, emailSource,
                   contactPages, browserFetcher, ctxDone, ret, ctxDoneAt, fetchErr, trace,
                   lastErr, retErr, backoffs, maxDepth>>
    /\ UNCHANGED <<pureVars, jobVars, otherVars>>

\* one pass of "for scrollCount < maxDepth": the select on ctx.Done(), the
\* Eval of scrollExpr and the type of its value, then either a stale pass
\* (break at maxStaleRetries, else continue) or a counted scroll followed by
\* the Eval of endOfListExpr (break when it gives true)
ScrollStep ==
    /\ scrollPc = "loop"
    /\ IF ~(scrollCount < maxDepth)
       THEN /\ ScrollReturn("depth", "nil")
            /\ UNCHANGED <<scrollCount, staleCount, currentScrollHeight>>
       ELSE \/ /\ ScrollReturn("ctx", "nil")
               /\ UNCHANGED <<scrollCount, staleCount, currentScrollHeight>>
            \/ /\ \E e \in {"eval", "type"} : ScrollReturn(e, e)
               /\ UNCHANGED <<scrollCount, staleCount, currentScrollHeight>>
            \/ \E height \in 0..MaxHeight :
                  IF height = currentScrollHeight
                  THEN /\ staleCount' = staleCount + 1
                       /\ IF staleCount' >= maxStaleRetries
                          THEN ScrollReturn("stale", "nil")
                          ELSE scrollSaw' = "stale" /\ UNCHANGED <<scrollPc, scrollErr>>
                       /\ UNCHANGED <<scrollCount, currentScrollHeight>>
                  ELSE /\ staleCount' = 0
                       /\ currentScrollHeight' = height
                       /\ scrollCount' = scrollCount + 1
                       /\ \E isEnd \in BOOLEAN :
                             IF isEnd
                             THEN ScrollReturn("end", "nil")
                             ELSE scrollSaw' = "progress" /\ UNCHANGED <<scrollPc, scrollErr>>
    /\ UNCHANGED <<pc, attempt, idx, body, emails, emailsNil, emailStatus, emailSource,
                   contactPages, browserFetcher, ctxDone, ret, ctxDoneAt, fetchErr, trace,
                   lastErr, retErr, backoffs, maxDepth>>
    /\ UNCHANGED <<pureVars, jobVars, otherVars>>

NextScroll == ScrollStep

SpecScroll == InitScroll /\ [][NextScroll]_vars

\* Eval and WaitForTimeout return, so every pass comes to its end
SpecScrollLive == SpecScroll /\ WF_vars(ScrollStep)

(***************************************************************************)
(* fetchPage: one GET.  The argument tells what the GET meets: urlOk, the  *)
(* request can be built; ctxDone, the context is done; transport, what     *)
(* httpClient.Do meets; status, the status of the final response; readErr, *)
(* reading the body fails; size, the length of the body in MB.             *)
(***************************************************************************)
Failed(kind) == [ok |-> FALSE, err |-> kind, len |-> 0]
Fetched(n) == [ok |-> TRUE, err |-> "nil", len |-> n]

\* fetchPage taking every status outside 200..299 for a failure
fetchPageOnly2xx(w) ==
    IF ~w.urlOk THEN Failed("creating request")
    ELSE IF w.ctxDone \/ w.transport # "ok" THEN Failed("fetching")
    ELSE IF w.status < 200 \/ w.status >= 300 THEN Failed("HTTP")
    ELSE IF w.readErr THEN Failed("reading body")
    ELSE Fetched(IF w.size < maxResponseBytes THEN w.size ELSE maxResponseBytes)

fetchPage(w) ==
    IF ~w.urlOk THEN Failed("creating request")
    ELSE IF w.ctxDone \/ w.transport # "ok" THEN Failed("fetching")
    ELSE IF w.status >= 400 THEN Failed("HTTP")
    ELSE IF w.readErr THEN Failed("reading body")
    ELSE Fetched(IF w.size < maxResponseBytes THEN w.size ELSE maxResponseBytes)

(***************************************************************************)
(* Entry.IsWebsiteValidForEmail, the caller's test before a pipeline is    *)
(* built.  A website is a string of symbols; a blocklist word is one.      *)
(***************************************************************************)
blocklist ==
    << "facebook", "instagram", "twitter", "linkedin", "youtube", "tiktok",
       "pinterest", "yelp", "tripadvisor" >>

\* the test comparing the website as written
IsWebsiteValidForEmailAsWritten(website) ==
    IF website = <<>> THEN FALSE
    ELSE IF ~HasPrefix(website, <<"http://">>) /\ ~HasPrefix(website, <<"https://">>) THEN FALSE
    ELSE \A k \in 1..Len(blocklist) : ~Contains(website, <<blocklist[k]>>)

IsWebsiteValidForEmail(website) ==
    IF website = <<>> THEN FALSE
    ELSE LET lower == ToLower(website) IN
         IF ~HasPrefix(lower, <<"http://">>) /\ ~HasPrefix(lower, <<"https://">>) THEN FALSE
         ELSE \A k \in 1..Len(blocklist) : ~Contains(lower, <<blocklist[k]>>)

(***************************************************************************)
(* Two pipelines on two entries, their Runs interleaved.  The variables    *)
(* hold the pipeline that is executing; other holds the one that is not.   *)
(***************************************************************************)
\* bound: the calls the two runs make together
MaxCalls == 4

\* the pipeline that is executing, with its entry
Saved ==
    [pc |-> pc, attempt |-> attempt, idx |-> idx, body |-> body, emails |-> emails,
     emailsNil |-> emailsNil, emailStatus |-> emailStatus, emailSource |-> emailSource,
     contactPages |-> contactPages, browserFetcher |-> browserFetcher, ctxDone |-> ctxDone,
     ret |-> ret, ctxDoneAt |-> ctxDoneAt, fetchErr |-> fetchErr, trace |-> trace,
     lastErr |-> lastErr, retErr |-> retErr, backoffs |-> backoffs]

\* the scheduler lets the other pipeline execute
Switch ==
    /\ other # NoRun
    /\ self' = 3 - self
    /\ other' = Saved
    /\ pc' = other.pc
    /\ attempt' = other.attempt
    /\ idx' = other.idx
    /\ body' = other.body
    /\ emails' = other.emails
    /\ emailsNil' = other.emailsNil
    /\ emailStatus' = other.emailStatus
    /\ emailSource' = other.emailSource
    /\ contactPages' = other.contactPages
    /\ browserFetcher' = other.browserFetcher
    /\ ctxDone' = other.ctxDone
    /\ ret' = other.ret
    /\ ctxDoneAt' = other.ctxDoneAt
    /\ fetchErr' = other.fetchErr
    /\ trace' = other.trace
    /\ lastErr' = other.lastErr
    /\ retErr' = other.retErr
    /\ backoffs' = other.backoffs
    /\ UNCHANGED <<pureVars, jobVars, scrollVars>>

\* a step of the executing Run
StepOfSelf == RunStep /\ Len(trace') + Len(other.trace) <= MaxCalls

InitTwo ==
    /\ pc = "idle"
    /\ attempt = 0
    /\ idx = 1
    /\ body = NoBody
    /\ emails = <<>>
    /\ emailsNil = TRUE
    /\ emailStatus = ""
    /\ emailSource = ""
    /\ contactPages = <<>>
    /\ browserFetcher = "mock"
    /\ ctxDone = FALSE
    /\ ret = "none"
    /\ ctxDoneAt = ""
    /\ fetchErr = FALSE
    /\ trace = <<>>
    /\ lastErr = "nil"
    /\ retErr = "nil"
    /\ backoffs = <<>>
    /\ fn = ""
    /\ arg = <<>>
    /\ res = <<>>
    /\ browserPage = "nil"
    /\ exitMonitor = "nil"
    /\ placesCompleted = 0
    /\ resp = NoResponse
    /\ result = NoResult
    /\ maxDepth = 0
    /\ scrollCount = 0
    /\ staleCount = 0
    /\ currentScrollHeight = 0
    /\ scrollPc = "none"
    /\ scrollErr = "nil"
    /\ scrollSaw = ""
    /\ self = 1
    /\ other = Saved

NextTwo ==
    \/ StepOfSelf
    \/ Switch

SpecTwo == InitTwo /\ [][NextTwo]_vars

(***************************************************************************)
(* The helper functions called on their own: isValidEmail,                 *)
(* deduplicateEmails, EmailPipeline.extractEmails, discoverContactPages.   *)
(* A call holds its argument in arg and, once returned, its result in res. *)
(***************************************************************************)
\* bounds of the arguments
MaxAddrs == 3
MaxNodes == 2
MaxAnchors == 6

\* sequences over S of length at most n
RECURSIVE SeqsUpTo(_, _)
SeqsUpTo(S, n) ==
    IF n = 0 THEN {<<>>}
    ELSE LET shorter == SeqsUpTo(S, n - 1)
         IN shorter \cup {Append(q, x) : q \in shorter, x \in S}

\* candidate strings for isValidEmail: local parts and domains
LocalParts ==
    { <<"info">>, <<"Info">>, <<"noreply">>, <<"NoReply">>, <<"no-reply">>, <<"no_reply">>,
      <<"mailer-daemon">>, <<"noreply", "-billing">>, <<"no-reply", ".", "shop">>,
      <<"dont", "noreply">>, <<>> }
Domains ==
    { <<"biz", ".", "com">>, <<"example", ".", "com">>, <<"Example", ".", "com">>,
      <<"test", ".", "com">>, <<"localhost">>, <<"sentry", ".", "io">>,
      <<"sub", ".", "example", ".", "com">>, <<"my", "example", ".", "com">>,
      <<"example", ".", "com", ".", "au">>, <<"sentry", ".", "io", "x">> }
Candidates ==
    {l \o <<"@">> \o d : l \in LocalParts, d \in Domains}
        \cup {<<" ">> \o l \o <<"@">> \o d \o <<" ">> : l \in {<<"info">>, <<"noreply">>},
                                                        d \in {<<"biz", ".", "com">>, <<"test", ".", "com">>}}
        \cup { <<>>, <<"not-an-email">>, <<"a", "@", "b", "@", "example", ".", "com">>,
               <<"example", ".", "com">> }

\* arguments of deduplicateEmails: a nil slice or a slice of addresses
Addrs == {eInfo, eSales, eSalesUp, <<"Info", "@", "Biz", ".", "com">>, <<" ">> \o eInfo}
SliceOf(isNil, elems) == [nil |-> isNil, elems |-> elems]
Slices == {SliceOf(TRUE, <<>>)} \cup {SliceOf(FALSE, q) : q \in SeqsUpTo(Addrs, MaxAddrs)}

\* bodies for extractEmails: up to MaxNodes of these nodes, parsable or not
ExtractNodes ==
    { Node("a", <<"mailto:">> \o eInfo \o <<"?", "subject=hi">>, <<<<"Email us">>>>),
      Node("a", <<"MAILTO:">> \o eSalesUp, <<<<"Sales">>>>),
      Node("a", <<"mailto:">> \o eNoReply, <<<<"x">>>>),
      Node("a", <<"mailTo:">> \o eInfo, <<<<"x">>>>),
      Node("a", <<"/contact">>, <<<<"Write">>, eSales>>),
      Node("text", <<>>, <<<<"or">>, eSalesUp>>),
      Node("text", <<>>, <<eInfo>>),
      Node("text", <<>>, <<eExample>>),
      Node("script", <<>>, <<eSales>>),
      Node("text", <<>>, <<<<"Welcome">>>>) }
ExtractBodies == {Doc(ok, ns) : ok \in BOOLEAN, ns \in SeqsUpTo(ExtractNodes, MaxNodes)}

\* homepages for discoverContactPages: at most MaxAnchors of the anchors of
\* AllLinks, in the order of AllLinks or in the opposite order, and two bases
Reverse(q) == [i \in 1..Len(q) |-> q[Len(q) + 1 - i]]
Pick(q, S) == SelectSeq([i \in 1..Len(q) |-> [n |-> q[i], keep |-> i \in S]], LAMBDA x : x.keep)
AnchorsOf(S) == [i \in 1..Len(Pick(AllLinks, S)) |-> Pick(AllLinks, S)[i].n]
AnchorSets == {S \in SUBSET (1..Len(AllLinks)) : Cardinality(S) <= MaxAnchors}
Bases == {WebSite, <<"https://", "other">>}
DiscoverArgs ==
    {[doc |-> Doc(TRUE, q), base |-> b] :
        q \in {AnchorsOf(S) : S \in AnchorSets} \cup {Reverse(AnchorsOf(S)) : S \in AnchorSets},
        b \in Bases}

\* websites for IsWebsiteValidForEmail: a scheme or none, then host and path
SchemeSyms == {"https://", "http://", "HTTPS://", "Http://", "ftp://", "www."}
Rests ==
    { <<"biz", ".", "com">>, <<"biz", ".", "com", "/somepage">>,
      <<"Facebook", ".", "com", "/somepage">>, <<"my", "yelp", "reviews", ".", "com">>,
      <<"biz", ".", "com", "/", "twitter">>, <<"YELP", ".", "com">>,
      <<"biz", ".", "com", "/?u=", "https://", "biz", ".", "com">>,
      <<"www.", "TripAdvisor", ".", "com">>, <<"face", ".", "book", ".", "com">> }
        \cup {<<blocklist[k], ".", "com">> : k \in 1..Len(blocklist)}
Websites == {<<>>} \cup Rests \cup {<<sch>> \o r : sch \in SchemeSyms, r \in Rests \cup {<<>>}}

\* what a GET may meet; MaxSize bounds the body length
MaxSize == 6
Statuses == {200, 204, 304, 399, 400, 404, 500}
Gets ==
    [urlOk : BOOLEAN, ctxDone : BOOLEAN, transport : {"ok", "refused", "redirects", "timeout"},
     status : Statuses, readErr : BOOLEAN, size : {0, 1, maxResponseBytes, MaxSize}]

(***************************************************************************)
(* The web service's records of a job: loadEntries, UpdateRecord,          *)
(* DeleteRecord, GetRecords.  The job's file holds a sequence of entries,  *)
(* of which title (a string) and rating (a number) are kept; a Go index i  *)
(* is position i + 1 of the sequence.                                      *)
(***************************************************************************)
\* bounds: the entries of a file and the pages and ids asked for
MaxRecords == 3
MaxPage == 4

Records == {[title |-> <<"Info">>, rating |-> 4], [title |-> <<"sales">>, rating |-> 5]}
Stored == SeqsUpTo(Records, MaxRecords)

\* loadEntries: "invalid" file name, no such file, unreadable JSON, or the entries
Loads == {"ok", "invalid", "missing", "parse"}

\* a key of the updates map: absent, or a value of some JSON type
Absent == [type |-> "absent", v |-> 0]
Values(good) == {Absent, good, [type |-> "bool", v |-> 0]}
Updates ==
    [title : Values([type |-> "string", v |-> <<"New">>]),
     rating : Values([type |-> "number", v |-> 3])]

\* saveEntries: written, or failed with the file intact or damaged
Saves == {"ok", "encode", "write"}

ZeroEntry == [title |-> <<>>, rating |-> 0]
Outcome(stored, entry, err) == [stored |-> stored, entry |-> entry, err |-> err]

\* the entry after the assignments of the switch
Updated(e, u) ==
    [title |-> IF u.title = Absent THEN e.title ELSE u.title.v,
     rating |-> IF u.rating = Absent THEN e.rating ELSE u.rating.v]

\* UpdateRecord saving what it has assigned when a value has the wrong type
UpdateRecordSavesPartial(w) ==
    IF w.load # "ok" THEN Outcome(w.stored, ZeroEntry, w.load)
    ELSE LET index == w.recordID - 1 IN
         IF index < 0 \/ index >= Len(w.stored) THEN Outcome(w.stored, ZeroEntry, "ErrNotFound")
         ELSE IF w.updates.title.type \notin {"absent", "string"}
                 \/ w.updates.rating.type \notin {"absent", "number"}
         THEN Outcome([w.stored EXCEPT ![index + 1] =
                          Updated(@, [title |-> IF w.updates.title.type = "string"
                                                THEN w.updates.title ELSE Absent,
                                      rating |-> IF w.updates.rating.type = "number"
                                                 THEN w.updates.rating ELSE Absent])],
                      ZeroEntry, "field")
         ELSE IF w.save = "encode" THEN Outcome(w.stored, ZeroEntry, "save")
         ELSE IF w.save = "write" THEN Outcome("damaged", ZeroEntry, "save")
         ELSE LET entries == [w.stored EXCEPT ![index + 1] = Updated(@, w.updates)]
              IN Outcome(entries, entries[index + 1], "nil")

\* UpdateRecord: load, idx := recordID - 1 and its range test, the switch
\* over the updates (a value of the wrong type returns before the save),
\* saveEntries, return entries[idx]
UpdateRecord(w) ==
    IF w.load # "ok" THEN Outcome(w.stored, ZeroEntry, w.load)
    ELSE LET index == w.recordID - 1 IN
         IF index < 0 \/ index >= Len(w.stored) THEN Outcome(w.stored, ZeroEntry, "ErrNotFound")
         ELSE IF w.updates.title.type \notin {"absent", "string"}
                 \/ w.updates.rating.type \notin {"absent", "number"}
         THEN Outcome(w.stored, ZeroEntry, "field")
         ELSE IF w.save = "encode" THEN Outcome(w.stored, ZeroEntry, "save")
         ELSE IF w.save = "write" THEN Outcome("damaged", ZeroEntry, "save")
         ELSE LET entries == [w.stored EXCEPT ![index + 1] = Updated(@, w.updates)]
              IN Outcome(entries, entries[index + 1], "nil")

\* DeleteRecord: entries = append(entries[:idx], entries[idx+1:]...), then save
DeleteRecord(w) ==
    IF w.load # "ok" THEN Outcome(w.stored, ZeroEntry, w.load)
    ELSE LET index == w.recordID - 1 IN
         IF index < 0 \/ index >= Len(w.stored) THEN Outcome(w.stored, ZeroEntry, "ErrNotFound")
         ELSE IF w.save = "encode" THEN Outcome(w.stored, ZeroEntry, "save")
         ELSE IF w.save = "write" THEN Outcome("damaged", ZeroEntry, "save")
         ELSE Outcome(SubSeq(w.stored, 1, index) \o SubSeq(w.stored, index + 2, Len(w.stored)),
                      ZeroEntry, "nil")

\* the entries GetRecords retains, each with its Go index in the stored array
RECURSIVE Indexed(_, _, _)
Indexed(stored, search, i) ==
    IF i >= Len(stored) THEN <<>>
    ELSE (IF search = <<>> \/ Contains(ToLower(stored[i + 1].title), ToLower(search))
          THEN <<[Entry |-> stored[i + 1], Index |-> i]>> ELSE <<>>)
         \o Indexed(stored, search, i + 1)

Window(list, total, err, panic) == [list |-> list, total |-> total, err |-> err, panic |-> panic]

\* GetRecords: start := (page - 1) * pageSize; the empty page when start >=
\* total; end := start + pageSize capped at total; indexed[start:end], a
\* slice expression that panics when start < 0 or start > end
GetRecords(w) ==
    IF w.load # "ok" THEN Window(<<>>, 0, w.load, FALSE)
    ELSE LET indexed == Indexed(w.stored, w.search, 0)
             total == Len(indexed)
             start == (w.page - 1) * w.pageSize
         IN IF start >= total THEN Window(<<>>, total, "nil", FALSE)
            ELSE LET end == IF start + w.pageSize > total THEN total ELSE start + w.pageSize
                 IN IF start < 0 \/ start > end
                    THEN Window(<<>>, 0, "slice bounds out of range", TRUE)
                    ELSE Window(SubSeq(indexed, start + 1, end), total, "nil", FALSE)

PageCalls ==
    [stored : Stored, load : Loads, page : (-1)..MaxPage, pageSize : 0..2,
     search : {<<>>, <<"info">>, <<"SALES">>, <<"zzz">>}]

RecordCalls ==
    [stored : Stored, load : Loads, recordID : (-1)..(MaxRecords + 1), updates : Updates,
     save : Saves]

(***************************************************************************)
(* The pipeline's http.Client on a chain of redirects.  Before it follows  *)
(* a redirect the client calls CheckRedirect with via, the requests made   *)
(* so far, the first one included; Do fails when CheckRedirect does.       *)
(***************************************************************************)
\* bound: the redirects a server answers with before its final response
MaxHops == 5

\* the CheckRedirect of NewEmailPipeline: if len(via) >= 3 { return error }
CheckRedirect(via) == IF via >= 3 THEN "stopped after 3 redirects" ELSE "nil"

\* httpClient.Do on a URL whose final response lies hops redirects away,
\* via requests having been made: the requests sent and the outcome
RECURSIVE Do(_, _)
Do(hops, via) ==
    IF hops = 0 THEN [ok |-> TRUE, requests |-> via, followed |-> via - 1]
    ELSE IF CheckRedirect(via) # "nil"
    THEN [ok |-> FALSE, requests |-> via, followed |-> via - 1]
    ELSE Do(hops - 1, via + 1)

PureFns ==
    {"isValidEmail", "deduplicateEmails", "extractEmails", "discoverContactPages",
     "extractEmailsFromDoc", "extractEmailsFromHTML", "extractEmailsFromText",
     "IsWebsiteValidForEmail", "fetchPage", "FetchWithBrowser",
     "UpdateRecord", "DeleteRecord", "GetRecords", "Do"}
ArgsOf(f) ==
    CASE f = "isValidEmail" -> Candidates
      [] f = "deduplicateEmails" -> Slices
      [] f = "extractEmails" -> ExtractBodies
      [] f = "discoverContactPages" -> DiscoverArgs
      [] f = "extractEmailsFromDoc" -> {b \in ExtractBodies : b.parse}
      [] f = "extractEmailsFromHTML" -> ExtractBodies
      [] f = "extractEmailsFromText" -> {VisibleText(b.nodes) : b \in ExtractBodies}
      [] f = "IsWebsiteValidForEmail" -> Websites
      [] f = "fetchPage" -> Gets
      [] f = "FetchWithBrowser" -> Navigations
      [] f = "UpdateRecord" -> RecordCalls
      [] f = "GetRecords" -> PageCalls
      [] f = "Do" -> [hops : 0..MaxHops]
      [] f = "DeleteRecord" -> {w \in RecordCalls : w.updates = [title |-> Absent, rating |-> Absent]}

\* a helper is about to be called on an argument; no Run is under way
InitPure ==
    /\ pc = "call"
    /\ attempt = 0
    /\ idx = 1
    /\ body = NoBody
    /\ emails = <<>>
    /\ emailsNil = TRUE
    /\ emailStatus = ""
    /\ emailSource = ""
    /\ contactPages = <<>>
    /\ browserFetcher = "nil"
    /\ ctxDone = FALSE
    /\ ret = "none"
    /\ ctxDoneAt = ""
    /\ fetchErr = FALSE
    /\ trace = <<>>
    /\ lastErr = "nil"
    /\ retErr = "nil"
    /\ backoffs = <<>>
    /\ fn \in PureFns
    /\ arg \in ArgsOf(fn)
    /\ res = <<>>
    /\ browserPage = "nil"
    /\ exitMonitor = "nil"
    /\ placesCompleted = 0
    /\ resp = NoResponse
    /\ result = NoResult
    /\ maxDepth = 0
    /\ scrollCount = 0
    /\ staleCount = 0
    /\ currentScrollHeight = 0
    /\ scrollPc = "none"
    /\ scrollErr = "nil"
    /\ scrollSaw = ""
    /\ self = 1
    /\ other = NoRun

runVars == <<attempt, idx, body, emails, emailsNil, emailStatus, emailSource, contactPages,
             browserFetcher, ctxDone, ret, ctxDoneAt, fetchErr, trace, lastErr, retErr, backoffs>>

\* the call returns
Returns(value) ==
    /\ pc = "call"
    /\ res' = value
    /\ pc' = "return"
    /\ UNCHANGED <<fn, arg, runVars, jobVars, scrollVars, otherVars>>

CallIsValidEmail == fn = "isValidEmail" /\ Returns(isValidEmail(arg))

\* result := make([]string, 0, len(emails)) is never nil
CallDeduplicateEmails ==
    fn = "deduplicateEmails" /\ Returns(SliceOf(FALSE, deduplicateEmails(arg.elems)))

CallExtractEmails == fn = "extractEmails" /\ Returns(extractEmails(arg))

CallDiscoverContactPages ==
    fn = "discoverContactPages" /\ Returns(discoverContactPages(arg.doc, arg.base))

CallExtractEmailsFromDoc ==
    /\ fn = "extractEmailsFromDoc"
    /\ pc = "call"
    /\ res' = extractEmailsFromDoc(arg)
    /\ arg' = docAfterExtract(arg)
    /\ pc' = "return"
    /\ UNCHANGED <<fn, runVars, jobVars, scrollVars, otherVars>>

CallExtractEmailsFromHTML ==
    fn = "extractEmailsFromHTML" /\ Returns(extractEmailsFromHTML(arg))

CallExtractEmailsFromText ==
    fn = "extractEmailsFromText" /\ Returns(extractEmailsFromText(arg))

CallIsWebsiteValidForEmail ==
    fn = "IsWebsiteValidForEmail" /\ Returns(IsWebsiteValidForEmail(arg))

CallFetchPage == fn = "fetchPage" /\ Returns(fetchPage(arg))

CallFetchWithBrowser == fn = "FetchWithBrowser" /\ Returns(FetchWithBrowser(arg))

CallUpdateRecord == fn = "UpdateRecord" /\ Returns(UpdateRecord(arg))

CallDeleteRecord == fn = "DeleteRecord" /\ Returns(DeleteRecord(arg))

CallGetRecords == fn = "GetRecords" /\ Returns(GetRecords(arg))

CallDo == fn = "Do" /\ Returns(Do(arg.hops, 1))

NextPure ==
    \/ CallIsValidEmail
    \/ CallDeduplicateEmails
    \/ CallExtractEmails
    \/ CallDiscoverContactPages
    \/ CallExtractEmailsFromDoc
    \/ CallExtractEmailsFromHTML
    \/ CallExtractEmailsFromText
    \/ CallIsWebsiteValidForEmail
    \/ CallFetchPage
    \/ CallFetchWithBrowser
    \/ CallUpdateRecord
    \/ CallDeleteRecord
    \/ CallGetRecords
    \/ CallDo

SpecPure == InitPure /\ [][NextPure]_vars

\* a Run, or a helper called on its own
SpecBoth == (Init \/ InitPure) /\ [][Next \/ NextPure]_vars

Returned(f) == pc = "return" /\ fn = f

(***************************************************************************)
(* Properties.                                                             *)
(***************************************************************************)
\* the EmailStatus values Run writes and the EmailSource values
RunStatuses == {"found", "not_found", "website_error"}
Sources == {"homepage", "contact_page", "browser_homepage", "browser_contact_page"}

\* a step of Run itself (the context becoming done leaves pc alone)
RunMoves == pc' # pc

\* the calls of the trace made at a level / with an operation
CallsAt(lvl) == SelectSeq(trace, LAMBDA e : e.lvl = lvl)
Renders == SelectSeq(trace, LAMBDA e : e.op = "render")

\* C1: a run on a fresh target (emails, emailStatus, emailSource empty, as
\* Init makes them) ends either with status found, a non-empty emails list
\* and one of the four sources, or with status not_found or website_error,
\* an empty emails list and an empty source.
C1_FreshRunOutcome ==
    pc = "done" =>
        \/ /\ emailStatus = "found"
           /\ Len(emails) > 0
           /\ emailSource \in Sources
        \/ /\ emailStatus \in {"not_found", "website_error"}
           /\ Len(emails) = 0
           /\ emailSource = ""

C1_Witness ==
    /\ pc = "done"
    /\ emailStatus = "found"
    /\ Len(emails) = 2
    /\ emailSource = "browser_contact_page"

\* C2: Run is total: whatever the fetches, waits and renders deliver, Run
\* never hands an error to its caller and never indexes contactPages out of
\* range (which would panic); once it has returned, it has returned nil and
\* emailStatus is found, not_found or website_error.
C2_RunTotal ==
    /\ ret \in {"none", "nil"}
    /\ ret = "none" <=> pc # "done"
    /\ pc = "done" => emailStatus \in RunStatuses
    /\ pc \in {"l2_fetch", "l2_backoff", "l2_extract", "l3_render", "l3_extract"}
           => idx \in 1..Len(contactPages)

C2_Witness ==
    /\ pc = "done"
    /\ ret = "nil"
    /\ emailStatus = "website_error"
    /\ ctxDoneAt = "Level1"

C4_HomepageFound ==
    [][/\ (RunMoves /\ pc = "l1_extract" /\ Len(extractEmails(body)) > 0)
          => /\ pc' = "done"
             /\ emails' = extractEmails(body)
             /\ ~emailsNil'
             /\ emailStatus' = "found"
             /\ emailSource' = "homepage"
             /\ contactPages' = <<>>
             /\ trace' = trace
             /\ \A i \in 1..Len(trace) : trace[i].op = "get" /\ trace[i].lvl = 1
       /\ (pc = "done" /\ emailSource = "homepage") => UNCHANGED <<trace, contactPages>>]_vars

C4_Witness ==
    /\ pc = "done"
    /\ emailStatus = "found"
    /\ emailSource = "homepage"
    /\ emails = <<eInfo>>
    /\ Len(trace) = 2

\* position of a url in contactPages (0 when absent)
PageIndex(u) ==
    IF \E i \in 1..Len(contactPages) : contactPages[i] = u
    THEN CHOOSE i \in 1..Len(contactPages) : contactPages[i] = u
    ELSE 0

\* the Level 2 calls are GETs that walk contactPages from its first entry,
\* staying on a page (retry) or moving to the next one
L2InOrder ==
    LET c == CallsAt(2) IN
    \A k \in 1..Len(c) :
        /\ c[k].op = "get"
        /\ PageIndex(c[k].url) >= 1
        /\ k = 1 => PageIndex(c[k].url) = 1
        /\ k > 1 => PageIndex(c[k].url) - PageIndex(c[k - 1].url) \in {0, 1}

\* C5: Level 2 fetches the retained contact pages one after another in list
\* order; the first page whose fetch succeeds and whose extraction yields an
\* address ends the run in that step with those addresses, status found and
\* source contact_page; no later page of the list is ever fetched and
\* nothing is rendered.
C5_ContactPageFound ==
    /\ [](L2InOrder)
    /\ []((pc = "done" /\ emailSource = "contact_page")
            => /\ Renders = <<>>
               /\ trace[Len(trace)].lvl = 2
               /\ trace[Len(trace)].url = contactPages[idx]
               /\ \A k \in 1..Len(CallsAt(2)) : PageIndex(CallsAt(2)[k].url) <= idx)
    /\ [][/\ (RunMoves /\ pc = "l2_extract" /\ Len(extractEmails(body)) > 0)
             => /\ pc' = "done"
                /\ emails' = extractEmails(body)
                /\ emailStatus' = "found"
                /\ emailSource' = "contact_page"
                /\ trace' = trace
          /\ (pc = "done" /\ emailSource = "contact_page") => trace' = trace]_vars

C5_Witness ==
    /\ pc = "done"
    /\ emailSource = "contact_page"
    /\ idx = 2
    /\ Len(contactPages) = 4
    /\ browserFetcher = "mock"

\* C6: without a browser fetcher nothing is ever rendered and no Level 3
\* position is reached; when the homepage was fetched and neither it nor any
\* contact page gave an address, Run returns with emails = [] (not nil),
\* status not_found and an empty source.
C6_NoFetcherNoLevel3 ==
    /\ [](browserFetcher = "nil" => Renders = <<>> /\ Level(pc) # "Level3")
    /\ [][(RunMoves /\ browserFetcher = "nil" /\ pc = "l2_check" /\ idx > Len(contactPages))
            => /\ pc' = "done"
               /\ emails' = <<>>
               /\ ~emailsNil'
               /\ emailStatus' = "not_found"
               /\ emailSource' = ""
               /\ trace' = trace]_vars

C6_Witness ==
    /\ pc = "done"
    /\ browserFetcher = "nil"
    /\ emailStatus = "not_found"
    /\ ~emailsNil
    /\ Len(CallsAt(2)) = 3
    /\ ~ctxDone

\* the last call of a trace
LastCall(t) == t[Len(t)]

\* the render calls follow the code's order: the homepage, then the entries
\* of contactPages from the first on, one call per entry, not beyond the limit
RendersInOrder ==
    LET r == Renders IN
    /\ r # <<>> => (browserFetcher # "nil" /\ r[1].url = WebSite)
    /\ \A k \in 2..Len(r) :
          /\ k - 1 <= browserPageLimit
          /\ k - 1 <= Len(contactPages)
          /\ r[k].url = contactPages[k - 1]
    /\ \A k \in 1..Len(trace) : (trace[k].op = "render") <=> (trace[k].lvl = 3)

\* no URL is passed to FetchWithBrowser twice
EachURLRenderedOnce ==
    \A k, l \in 1..Len(Renders) : k # l => Renders[k].url # Renders[l].url

\* C7 as stated: Level 3 renders the homepage, then at most the first 3
\* retained contact pages in list order, and each URL at most once.
C7_Original ==
    /\ RendersInOrder
    /\ EachURLRenderedOnce

\* C7 (amended): when Level 1 and Level 2 found nothing and a fetcher is
\* supplied, Level 3 renders the homepage first and then at most the first 3
\* entries of contactPages in list order, one call per entry and no retry; a
\* URL is rendered twice only when the list holds the homepage URL itself.  A
\* rendered homepage with an address ends the run with found and
\* browser_homepage, a rendered contact page with one with found and
\* browser_contact_page.
C7_Level3Renders ==
    /\ [](RendersInOrder)
    /\ [](\A k, l \in 1..Len(Renders) :
             (k < l /\ Renders[k].url = Renders[l].url)
                => (k = 1 /\ Renders[l].url = WebSite))
    /\ [][/\ (RunMoves /\ pc = "l2_check" /\ idx > Len(contactPages) /\ browserFetcher # "nil")
             => (pc' = "l3_home" /\ UNCHANGED entryVars /\ trace' = trace)
          /\ (RunMoves /\ pc = "l3_home")
             => (Len(trace') = Len(trace) + 1 /\ LastCall(trace').url = WebSite
                 /\ LastCall(trace').op = "render" /\ Renders = <<>>)
          /\ (RunMoves /\ pc = "l3_render")
             => (Len(trace') = Len(trace) + 1 /\ LastCall(trace').op = "render"
                 /\ LastCall(trace').url = contactPages[idx]
                 /\ Len(Renders) = idx)
          /\ (RunMoves /\ pc = "l3_home_extract" /\ Len(extractEmails(body)) > 0)
             => /\ pc' = "done"
                /\ emails' = extractEmails(body)
                /\ emailStatus' = "found"
                /\ emailSource' = "browser_homepage"
          /\ (RunMoves /\ pc = "l3_extract" /\ Len(extractEmails(body)) > 0)
             => /\ pc' = "done"
                /\ emails' = extractEmails(body)
                /\ emailStatus' = "found"
                /\ emailSource' = "browser_contact_page"]_vars

C7_Witness ==
    /\ pc = "done"
    /\ emailSource = "browser_contact_page"
    /\ Len(contactPages) = 5
    /\ Len(Renders) = 4
    /\ Len(emails) > 0
    /\ fetchErr

\* the position of a level in the order Level1, Level2, Level3, Done
LevelNum(p) ==
    CASE Level(p) = "before" -> 0
      [] Level(p) = "Level1" -> 1
      [] Level(p) = "Level2" -> 2
      [] Level(p) = "Level3" -> 3
      [] OTHER -> 4

\* C8: the levels are entered in the order Level1, Level2, Level3, Done and
\* never revisited; Level 2 is entered only from a homepage extraction that
\* gave nothing; every call is made at the level the run is in; nothing is
\* rendered before a fetchPage call was made for every retained contact page;
\* once the status is found no call is made; and when Run stores found, the
\* source names the kind of the last call, whose body gave the stored emails.
C8_LevelOrder ==
    /\ [](Renders # <<>> =>
             \A i \in 1..Len(contactPages) :
                \E k \in 1..Len(trace) : trace[k].lvl = 2 /\ trace[k].url = contactPages[i])
    /\ [](\A k, l \in 1..Len(trace) : k < l => trace[k].lvl <= trace[l].lvl)
    /\ [][/\ LevelNum(pc') >= LevelNum(pc)
          /\ (Level(pc') = "Level2" /\ Level(pc) # "Level2")
             => (pc = "l1_extract" /\ Len(extractEmails(body)) = 0 /\ pc' = "l2_check")
          /\ (Level(pc') = "Level3" /\ Level(pc) # "Level3")
             => (pc = "l2_check" /\ idx > Len(contactPages))
          /\ trace' # trace
             => (Len(trace') = Len(trace) + 1 /\ LevelNum(pc) = LastCall(trace').lvl)
          /\ emailStatus = "found" => (trace' = trace /\ pc' = pc)
          /\ (emailStatus' = "found" /\ emailStatus # "found")
             => /\ emails' = extractEmails(body)
                /\ trace' = trace
                /\ LET e == LastCall(trace) IN
                   CASE emailSource' = "homepage" ->
                          e.op = "get" /\ e.lvl = 1 /\ e.url = WebSite
                     [] emailSource' = "contact_page" ->
                          e.op = "get" /\ e.lvl = 2 /\ e.url = contactPages[idx]
                     [] emailSource' = "browser_homepage" ->
                          e.op = "render" /\ e.url = WebSite /\ Len(Renders) = 1
                     [] emailSource' = "browser_contact_page" ->
                          e.op = "render" /\ e.url = contactPages[idx] /\ Len(Renders) = idx + 1
                     [] OTHER -> FALSE]_vars

C8_Witness ==
    /\ pc = "done"
    /\ emailStatus = "found"
    /\ emailSource = "browser_homepage"
    /\ Len(contactPages) = 5
    /\ Len(CallsAt(2)) >= 5
    /\ Len(Renders) = 1

\* C9: a contact page that cannot be fetched (its last attempt fails, or the
\* context ends the wait before the retry) or cannot be rendered only moves
\* the loop to the next page and leaves the entry alone; no step taken in
\* Level 2 or Level 3 writes website_error, and a run that ended with
\* website_error made homepage GETs only, the last of which failed.
C9_PageFailureNotFatal ==
    /\ [](emailStatus = "website_error" =>
             /\ pc = "done"
             /\ fetchErr
             /\ trace # <<>>
             /\ \A k \in 1..Len(trace) :
                   trace[k].op = "get" /\ trace[k].lvl = 1 /\ trace[k].url = WebSite)
    /\ [][/\ Level(pc) \in {"Level2", "Level3"} => emailStatus' # "website_error"
          /\ (RunMoves /\ pc = "l2_fetch" /\ attempt >= maxRetryLevel2 /\ pc' # "l2_extract")
             => (pc' = "l2_check" /\ idx' = idx + 1 /\ UNCHANGED entryVars /\ ret' = "none")
          /\ (RunMoves /\ pc = "l2_backoff" /\ ctxDone)
             => (pc' = "l2_check" /\ idx' = idx + 1 /\ UNCHANGED entryVars /\ ret' = "none")
          /\ (RunMoves /\ pc = "l3_render" /\ pc' # "l3_extract")
             => (pc' = "l3_check" /\ idx' = idx + 1 /\ UNCHANGED entryVars /\ ret' = "none")]_vars

C9_Witness ==
    /\ pc = "l2_fetch"
    /\ idx = 2
    /\ fetchErr
    /\ ~ctxDone
    /\ Len(CallsAt(2)) = maxRetryLevel2 + 1
    /\ emailStatus = ""

\* the calls of a kind made at Level 2 or 3 with the context already done
LateCalls(op) == SelectSeq(trace, LAMBDA e : e.lvl >= 2 /\ e.op = op /\ ~e.sent)

\* C10 as stated: a run whose context became done in Level 2 or Level 3 made
\* no contact-page GET and no render call with the context done, and ends
\* with not_found and an empty emails list.
C10_Original ==
    (pc = "done" /\ ctxDoneAt \in {"Level2", "Level3"})
       => /\ emailStatus = "not_found"
          /\ Len(emails) = 0
          /\ LateCalls("get") = <<>>
          /\ LateCalls("render") = <<>>

\* C10 (amended): the context is examined at the head of every iteration of
\* the Level 2 loop and of the Level 3 contact-page loop; when it is done
\* there, Run returns at once with not_found and emails = [] and makes no
\* further call.  It is examined nowhere else in Run: after the context became
\* done in Level 2 or 3 at most one more fetchPage call and one more render
\* call are made, and the run still ends with found or not_found.
C10_DeadlineAtLoopHead ==
    /\ [](Len(LateCalls("get")) <= 1 /\ Len(LateCalls("render")) <= 1)
    /\ []((pc = "done" /\ ctxDoneAt \in {"Level2", "Level3"})
             => emailStatus \in {"found", "not_found"})
    /\ [][(/\ RunMoves
           /\ ctxDone
           /\ \/ pc = "l2_check" /\ idx <= Len(contactPages)
              \/ pc = "l3_check")
            => /\ pc' = "done"
               /\ emails' = <<>>
               /\ ~emailsNil'
               /\ emailStatus' = "not_found"
               /\ trace' = trace]_vars

C10_Witness ==
    /\ pc = "done"
    /\ ctxDoneAt = "Level3"
    /\ emailStatus = "not_found"
    /\ Len(contactPages) = 4
    /\ Len(Renders) = 2
    /\ LateCalls("render") = <<>>

\* C11: when every attempt, wait and render call returns, Run reaches its
\* return with a status written, whatever fails on the way.
C11_RunTerminates == <>(pc = "done" /\ ret = "nil" /\ emailStatus \in RunStatuses)

\* the longest run: every contact page fails twice and every render fails
C11_Witness ==
    /\ pc = "done"
    /\ Len(contactPages) = maxContactPages
    /\ Len(CallsAt(2)) = maxContactPages * (maxRetryLevel2 + 1)
    /\ Len(Renders) = browserPageLimit + 1
    /\ emailStatus = "not_found"

\* the fetchPage calls made for contact page i
CallsForIn(t, i) == SelectSeq(t, LAMBDA e : e.lvl = 2 /\ e.url = contactPages[i])
CallsFor(i) == CallsForIn(trace, i)

\* C12: fetchWithRetry makes at most 3 GETs of the homepage (n = 2) and at
\* most 2 of each contact page (n = 1), the loop variable counting them; an
\* attempt that succeeds returns its body with a nil error and is the last
\* GET of that call; when attempt n fails too, the error returned is the one
\* of that attempt.
C12_RetryBound ==
    /\ [](/\ Len(CallsAt(1)) <= 3
          /\ \A i \in 1..Len(contactPages) : Len(CallsFor(i)) <= 2
          /\ (pc \in {"l1_fetch", "l1_backoff"} => Len(CallsAt(1)) = attempt)
          /\ (pc \in {"l2_fetch", "l2_backoff"} => Len(CallsFor(idx)) = attempt)
          /\ (pc = "l1_extract" => ~fetchErr /\ retErr = "nil" /\ body \in HomeBodies)
          /\ (pc = "l2_extract" => ~fetchErr /\ retErr = "nil" /\ body \in PageBodies))
    /\ [][/\ pc \notin {"l1_fetch"} => CallsAt(1)' = CallsAt(1)
          /\ pc \notin {"l2_fetch"} => CallsAt(2)' = CallsAt(2)
          /\ (RunMoves /\ pc = "l1_fetch" /\ pc' = "l1_extract")
             => (trace' = Append(trace, Event("get", 1, WebSite)) /\ attempt' = attempt)
          /\ (RunMoves /\ pc = "l2_fetch" /\ pc' = "l2_extract")
             => (trace' = Append(trace, Event("get", 2, contactPages[idx])) /\ attempt' = attempt)
          /\ (RunMoves /\ pc = "l1_fetch" /\ pc' = "done")
             => (attempt = 2 /\ Len(CallsAt(1)') = 3 /\ fetchErr' /\ retErr' = "err2")
          /\ (RunMoves /\ pc = "l2_fetch" /\ pc' = "l2_check")
             => (attempt = 1 /\ Len(CallsForIn(trace', idx)) = 2 /\ fetchErr' /\ retErr' = "err1")]_vars

C12_Witness ==
    /\ pc = "l2_extract"
    /\ idx = 2
    /\ Len(CallsAt(1)) = 3
    /\ Len(CallsFor(1)) = 2
    /\ Len(CallsFor(2)) = 2
    /\ lastErr = "err0"
    /\ retErr = "nil"

\* C13: fetchWithRetry has waited nothing when it makes its first attempt,
\* 1s when it makes the second and 1s then 3s when it makes the third; a wait
\* is entered only with the error of the attempt before it at hand; when the
\* context is done at the select of a wait, no wait is completed, the call
\* returns ctx.Err() at once and no GET follows for any URL.
C13_Backoff ==
    /\ [](/\ (pc \in {"l1_fetch", "l2_fetch"}
                => backoffs = SubSeq(<<1, 3>>, 1, attempt))
          /\ (pc \in {"l1_backoff", "l2_backoff"}
                => /\ attempt >= 1
                   /\ backoffs = SubSeq(<<1, 3>>, 1, attempt - 1)
                   /\ lastErr = AttemptErr(attempt - 1)
                   /\ LastCall(trace).op = "get")
          /\ (retErr = "ctx"
                => fetchErr /\ ctxDone /\ pc \notin {"l1_fetch", "l1_backoff", "l2_fetch", "l2_backoff"}))
    /\ [][/\ (RunMoves /\ pc \in {"l1_backoff", "l2_backoff"} /\ ctxDone)
             => /\ backoffs' = backoffs
                /\ trace' = trace
                /\ fetchErr'
                /\ retErr' = "ctx"
                /\ pc' = (IF pc = "l1_backoff" THEN "done" ELSE "l2_check")
          /\ (RunMoves /\ pc \in {"l1_backoff", "l2_backoff"} /\ ~ctxDone)
             => /\ Len(backoffs') = Len(backoffs) + 1
                /\ pc' = (IF pc = "l1_backoff" THEN "l1_fetch" ELSE "l2_fetch")
          /\ retErr = "ctx"
             => (CallsAt(1)' = CallsAt(1) /\ CallsAt(2)' = CallsAt(2) /\ retErr' = "ctx")]_vars

C13_Witness ==
    /\ pc = "done"
    /\ emailStatus = "website_error"
    /\ retErr = "ctx"
    /\ backoffs = <<1>>
    /\ lastErr = "err1"
    /\ Len(trace) = 2

(***************************************************************************)
(* The helpers: extractEmails.                                             *)
(***************************************************************************)
Elems(q) == {q[i] : i \in 1..Len(q)}
NoRepeat(q) == \A i, j \in 1..Len(q) : i # j => q[i] # q[j]

\* the validated addresses of the mailto links of a document, lowercased
ValidMailto(doc) ==
    {ToLower(MailtoValue(n.href)) :
        n \in {m \in Elems(doc.nodes) :
                  /\ m.kind = "a" /\ m.href # <<>> /\ Head(m.href) \in MailtoSchemes
                  /\ isValidEmail(ToLower(MailtoValue(m.href)))}}

\* C14: when a document has a valid mailto link, extractEmails returns
\* exactly the validated, deduplicated mailto addresses and nothing taken
\* from the visible text or the raw bytes.
C14_MailtoOnly ==
    (Returned("extractEmails") /\ arg.parse /\ ValidMailto(arg) # {})
        => (Elems(res) = ValidMailto(arg) /\ NoRepeat(res))


(***************************************************************************)
(* The helpers: isValidEmail.                                              *)
(***************************************************************************)
\* position of the last "@" of s, 0 when there is none
LastAt(s) ==
    IF \A i \in 1..Len(s) : s[i] # "@" THEN 0
    ELSE CHOOSE k \in 1..Len(s) : s[k] = "@" /\ \A j \in 1..Len(s) : s[j] = "@" => j <= k

\* local part and domain of a candidate, surrounding blanks and case dropped
LocalOf(s) == LET t == ToLower(TrimSpace(s)) IN [i \in 1..(LastAt(t) - 1) |-> t[i]]
DomainOf(s) == LET t == ToLower(TrimSpace(s)) IN [i \in 1..(Len(t) - LastAt(t)) |-> t[LastAt(t) + i]]

\* C15: isValidEmail rejects every address whose local part starts with
\* noreply, no-reply, no_reply or mailer-daemon, in any case, also when the
\* local part goes on after the prefix (noreply-billing@...).
C15_BlockedLocalPrefix ==
    (/\ Returned("isValidEmail")
     /\ LastAt(TrimSpace(arg)) > 1
     /\ Head(LocalOf(arg)) \in {"noreply", "no-reply", "no_reply", "mailer-daemon"})
        => res = FALSE


\* C16: isValidEmail rejects every address whose domain, the text after the
\* last "@" in any case, is exactly example.com, test.com, localhost or
\* sentry.io, whatever the local part; a well-formed address whose domain
\* merely contains or ends with one of them is not rejected for its domain.
C16_BlockedDomainExact ==
    LET blocked == { <<"example", ".", "com">>, <<"test", ".", "com">>,
                     <<"localhost">>, <<"sentry", ".", "io">> }
        mailbox == { <<"noreply">>, <<"no-reply">>, <<"no_reply">>, <<"mailer-daemon">> }
    IN Returned("isValidEmail") =>
          /\ (LastAt(TrimSpace(arg)) > 0 /\ DomainOf(arg) \in blocked) => res = FALSE
          /\ (/\ ParseOk(TrimSpace(arg))
              /\ LocalOf(arg) \notin mailbox
              /\ DomainOf(arg) \notin blocked) => res = TRUE

C16_Witness ==
    /\ Returned("isValidEmail")
    /\ arg = <<"info", "@", "Example", ".", "com">>
    /\ res = FALSE


(***************************************************************************)
(* The helpers: deduplicateEmails.                                         *)
(***************************************************************************)
\* first position of q holding x in some case
FirstIn(q, x) == CHOOSE k \in 1..Len(q) : ToLower(q[k]) = x /\ \A j \in 1..(k - 1) : ToLower(q[j]) # x

Target(n, b) == ResolveReference(ParseURL(b), ParseURL(TrimSpace(n.href)))
\* the anchor is a link proper: neither fragment-only nor javascript:
ProperLink(n) ==
    /\ n.kind = "a" /\ TrimSpace(n.href) # <<>>
    /\ Head(TrimSpace(n.href)) # "#"
    /\ LowerSym(Head(TrimSpace(n.href))) # "javascript:"
    /\ ParseURL(TrimSpace(n.href)).ok
\* index of the first path pattern the URL u matches, -1 when none
ByPath(u) == PathPriority(ToLower(ParseURL(u).path))
ByText(n) == TextMatches(ToLower(TrimSpace(JoinWords(n.words))))
\* the anchor is a contact link of the site at b
Usable(n, b) ==
    /\ ProperLink(n)
    /\ Target(n, b).host = ParseURL(b).host
    /\ LowerSym(PathExt(Target(n, b).path)) \notin skipExtensions
    /\ (ByPath(URLString(Target(n, b))) >= 0 \/ ByText(n))
\* the contact URLs of a document and the position each is first met at
Found(doc, b) == {URLString(Target(n, b)) : n \in {m \in Elems(doc.nodes) : Usable(m, b)}}
Pos(doc, b, u) ==
    CHOOSE i \in 1..Len(doc.nodes) :
        /\ Usable(doc.nodes[i], b) /\ URLString(Target(doc.nodes[i], b)) = u
        /\ \A j \in 1..(i - 1) :
              ~(Usable(doc.nodes[j], b) /\ URLString(Target(doc.nodes[j], b)) = u)

\* C18: discoverContactPages returns at most 5 URLs, pairwise distinct, all
\* on the host of the base URL, none with a skipped path extension, and each
\* the target of a link proper (not fragment-only, not javascript:) that
\* matches a path pattern or a text pattern.
C18_DiscoverResult ==
    Returned("discoverContactPages") =>
        /\ Len(res) <= 5
        /\ NoRepeat(res)
        /\ \A i \in 1..Len(res) :
              /\ ParseURL(res[i]).host = ParseURL(arg.base).host
              /\ LowerSym(PathExt(ParseURL(res[i]).path)) \notin skipExtensions
              /\ \E n \in Elems(arg.doc.nodes) :
                    /\ ProperLink(n)
                    /\ URLString(Target(n, arg.base)) = res[i]
                    /\ (ByPath(res[i]) >= 0 \/ ByText(n))

C18_Witness ==
    /\ Returned("discoverContactPages")
    /\ arg.base = WebSite
    /\ Len(res) = 5
    /\ \E n \in Elems(arg.doc.nodes) : ~Usable(n, arg.base)

\* u ranks before v: a path match before a text-only match, a lower pattern
\* index first, document order otherwise
Before(doc, b, u, v) ==
    LET key(x) == IF ByPath(x) >= 0 THEN ByPath(x) ELSE Len(contactPathPatterns)
    IN \/ key(u) < key(v)
       \/ key(u) = key(v) /\ Pos(doc, b, u) < Pos(doc, b, v)

\* C19: the result is ranked: path matches before text-only matches, lower
\* pattern index first, document order among equals and among text-only
\* matches; what truncation drops ranks after all five kept.
C19_Ranking ==
    Returned("discoverContactPages") =>
        /\ Elems(res) \subseteq Found(arg.doc, arg.base)
        /\ \A i, j \in 1..Len(res) : i < j => Before(arg.doc, arg.base, res[i], res[j])
        /\ \A u \in Found(arg.doc, arg.base) \ Elems(res) :
              /\ Len(res) = 5
              /\ \A i \in 1..Len(res) : Before(arg.doc, arg.base, res[i], u)

C19_Witness ==
    /\ Returned("discoverContactPages")
    /\ Cardinality(Found(arg.doc, arg.base)) = 6
    /\ Len(res) = 5
    /\ \E i, j \in 1..Len(arg.doc.nodes) :
          /\ i < j
          /\ Usable(arg.doc.nodes[i], arg.base) /\ Usable(arg.doc.nodes[j], arg.base)
          /\ ByPath(URLString(Target(arg.doc.nodes[i], arg.base))) < 0
          /\ ByPath(URLString(Target(arg.doc.nodes[j], arg.base))) = 0


(***************************************************************************)
(* Level 3 and the contact pages.                                          *)
(***************************************************************************)
\* C20: when the rendered homepage yields no address and the static homepage
\* gave no contact pages, discoverContactPages is run on the rendered
\* homepage and its result becomes the list of pages Level 3 renders.
C20_Rediscovery ==
    [][(/\ pc = "l3_home_extract"
        /\ pc' # pc
        /\ contactPages = <<>>
        /\ Len(extractEmails(body)) = 0)
            => contactPages' = discoverContactPages(body, WebSite)]_vars


(***************************************************************************)
(* Run on an entry an earlier Run has written.  The pipeline is a new one  *)
(* (NewEmailPipeline), the entry holds what the earlier Run left.          *)
(***************************************************************************)
EntryOf(e, isNil, status, source) ==
    [emails |-> e, emailsNil |-> isNil, emailStatus |-> status, emailSource |-> source]

\* what a Run on a fresh entry leaves: found, not_found, website_error
PriorEntries ==
    { EntryOf(<<eInfo>>, FALSE, "found", "homepage"),
      EntryOf(<<eSales, eInfo>>, FALSE, "found", "browser_contact_page"),
      EntryOf(<<>>, FALSE, "not_found", ""),
      EntryOf(<<>>, TRUE, "website_error", "") }

InitRerun ==
    /\ pc = "idle"
    /\ attempt = 0
    /\ idx = 1
    /\ body = NoBody
    /\ \E e \in PriorEntries :
          /\ emails = e.emails
          /\ emailsNil = e.emailsNil
          /\ emailStatus = e.emailStatus
          /\ emailSource = e.emailSource
    /\ contactPages = <<>>
    /\ browserFetcher \in Fetchers
    /\ ctxDone = FALSE
    /\ ret = "none"
    /\ ctxDoneAt = ""
    /\ fetchErr = FALSE
    /\ trace = <<>>
    /\ lastErr = "nil"
    /\ retErr = "nil"
    /\ backoffs = <<>>
    /\ fn = ""
    /\ arg = <<>>
    /\ res = <<>>
    /\ browserPage = "nil"
    /\ exitMonitor = "nil"
    /\ placesCompleted = 0
    /\ resp = NoResponse
    /\ result = NoResult
    /\ maxDepth = 0
    /\ scrollCount = 0
    /\ staleCount = 0
    /\ currentScrollHeight = 0
    /\ scrollPc = "none"
    /\ scrollErr = "nil"
    /\ scrollSaw = ""
    /\ self = 1
    /\ other = NoRun

SpecRerun == InitRerun /\ [][Next]_vars

\* C21: when a Run is over, whatever the entry held before, emails is
\* non-empty exactly when the status is found, and so is the source.
C21_FieldsConsistent ==
    (pc = "done" /\ ret = "nil") =>
        /\ (emails # <<>>) <=> (emailStatus = "found")
        /\ (emailSource # "") <=> (emailStatus = "found")


(***************************************************************************)
(* The extractors and the lists they return.                               *)
(***************************************************************************)
Extractors ==
    {"extractEmails", "extractEmailsFromDoc", "extractEmailsFromHTML", "extractEmailsFromText"}

\* the list holds validated, lowercase, pairwise distinct addresses
CleanList(q) ==
    /\ \A i \in 1..Len(q) : isValidEmail(q[i])
    /\ \A i \in 1..Len(q) : \A k \in 1..Len(q[i]) : LowerSym(q[i][k]) = q[i][k]
    /\ NoRepeat(q)

\* C22: every list an extractor returns holds only addresses isValidEmail
\* accepts, lowercase and pairwise distinct; so does every list Run stores
\* with status found.
C22_ExtractedListsClean ==
    /\ (pc = "return" /\ fn \in Extractors) => CleanList(res)
    /\ (pc = "done" /\ emailStatus = "found" /\ trace # <<>>) => CleanList(emails)

C22_Witness ==
    /\ Returned("extractEmailsFromHTML")
    /\ \E i \in 1..Len(arg.nodes) : arg.nodes[i].words = <<eExample>>
    /\ \E i \in 1..Len(arg.nodes) : arg.nodes[i].href = <<"MAILTO:">> \o eSalesUp
    /\ res = <<eSales>>


(***************************************************************************)
(* Extraction inside Run: parsed document or raw bytes.                    *)
(***************************************************************************)
\* the valid addresses among the matches of the address pattern in strs
ValidIn(strs) == {x \in {ToLower(y) : y \in Elems(FindAll(strs))} : isValidEmail(x)}
\* what the document strategies yield, and what the scan of the raw bytes yields
DocAddrs(b) == ValidMailto(b) \cup ValidIn(VisibleText(b.nodes))
RawAddrs(b) == ValidIn(RawStrings(b.nodes))

ExtractPcs == {"l1_extract", "l2_extract", "l3_home_extract", "l3_extract"}

\* C23: the raw bytes are scanned only when the body does not parse or the
\* document strategies yield nothing, and then Run goes on with what that
\* scan gives: found with these addresses, or the next step of the run; an
\* unparsable body never makes Run return an error.
Expected(b) == IF b.parse /\ DocAddrs(b) # {} THEN DocAddrs(b) ELSE RawAddrs(b)

C23_RawFallback ==
    /\ [](Returned("extractEmails") => Elems(res) = Expected(arg))
    /\ [][(pc \in ExtractPcs /\ pc' # pc) =>
             /\ ret' # "err"
             /\ IF Expected(body) # {}
                THEN pc' = "done" /\ emailStatus' = "found" /\ Elems(emails') = Expected(body)
                ELSE pc' \in {"l2_check", "l3_check"} /\ ret' = "none"
                     /\ emailStatus' = emailStatus /\ emails' = emails]_vars

C23_Witness ==
    /\ pc = "done"
    /\ emailStatus = "found"
    /\ emailSource = "contact_page"
    /\ emails = <<eInfo>>


(***************************************************************************)
(* The writes of Run to the entry.                                         *)
(***************************************************************************)
\* C24: the entry is written once per run: as long as Run has not returned
\* the three fields hold what they held before the run, every write is made
\* by the step that returns, and nothing is written after it.
C24_WrittenOnce ==
    /\ [](pc # "done" =>
             EntryOf(emails, emailsNil, emailStatus, emailSource) \in PriorEntries)
    /\ [][/\ pc # "done"
          /\ pc' # "done" => UNCHANGED entryVars]_vars

C24_Witness ==
    /\ pc = "l3_render"
    /\ idx = 2
    /\ EntryOf(emails, emailsNil, emailStatus, emailSource)
           = EntryOf(<<eInfo>>, FALSE, "found", "homepage")


(***************************************************************************)
(* Two pipelines.                                                          *)
(***************************************************************************)
\* what holds of a pipeline running alone, said of the record r of a pipeline:
\* its list is short and without repetition, it has called only its site
\* and the pages of its list, and its outcome is that of its last call
AsAlone(r) ==
    /\ Len(r.contactPages) <= maxContactPages /\ NoRepeat(r.contactPages)
    /\ \A i \in 1..Len(r.trace) :
          r.trace[i].url \in {WebSite} \cup Elems(r.contactPages)
    /\ r.pc # "done" =>
          r.emails = <<>> /\ r.emailsNil /\ r.emailStatus = "" /\ r.emailSource = ""
    /\ r.pc = "done" =>
          /\ r.ret = "nil" /\ r.trace # <<>>
          /\ r.emailStatus \in RunStatuses
          /\ r.emailStatus = "found" <=> r.emails # <<>>
          /\ r.emailStatus = "found" <=> r.emailSource # ""
          /\ r.emailSource = "homepage" => \A i \in 1..Len(r.trace) : r.trace[i].lvl = 1
          /\ r.emailSource = "contact_page" =>
                r.trace[Len(r.trace)] = [op |-> "get", lvl |-> 2, sent |-> TRUE,
                                         url |-> r.trace[Len(r.trace)].url]
          /\ r.emailSource \in {"browser_homepage", "browser_contact_page"} =>
                r.trace[Len(r.trace)].op = "render"

\* C25: two interleaved Runs on two entries share nothing: a step of one
\* leaves the other pipeline, its entry and its contact-page list as they
\* are, a switch between them changes neither, and each ends as a Run alone.
C25_NoSharedState ==
    /\ [](AsAlone(Saved) /\ AsAlone(other))
    /\ [][IF self' # self
          THEN other' = Saved /\ Saved' = other
          ELSE other' = other]_vars

C25_Witness ==
    /\ pc = "done" /\ other.pc = "done"
    /\ emailStatus = "found" /\ emailSource = "contact_page" /\ contactPages # <<>>
    /\ other.emailStatus = "not_found" /\ other.contactPages = <<>>
    /\ Len(other.trace) = 2


(***************************************************************************)
(* One call at a time.                                                     *)
(***************************************************************************)
CallPcs == {"l1_fetch", "l2_fetch", "l3_home", "l3_render"}

\* C26: a Run works sequentially: a step makes at most one fetchPage or
\* FetchWithBrowser call, a call is made only when no body is waiting to be
\* extracted, and a body obtained is extracted before the next call.
C26_Sequential ==
    /\ [](pc \notin ExtractPcs => body = NoBody)
    /\ [](pc \in ExtractPcs =>
             /\ body # NoBody /\ trace # <<>>
             /\ trace[Len(trace)].op = (IF pc \in {"l1_extract", "l2_extract"} THEN "get" ELSE "render"))
    /\ [][/\ trace' # trace =>
               /\ pc \in CallPcs
               /\ Len(trace') = Len(trace) + 1
               /\ SubSeq(trace', 1, Len(trace)) = trace
               /\ pc' \in ExtractPcs <=> body' # NoBody
          /\ pc \in ExtractPcs /\ pc' # pc => trace' = trace /\ body' = NoBody]_vars

C26_Witness ==
    /\ pc = "l3_extract"
    /\ idx = 2
    /\ body = DocMailto
    /\ Len(Renders) = 3


(***************************************************************************)
(* The helpers: IsWebsiteValidForEmail.                                    *)
(***************************************************************************)
\* C27: IsWebsiteValidForEmail is true exactly for a non-empty website that
\* starts with http:// or https:// and contains none of the nine blocked
\* words, scheme and words compared in any case.
C27_WebsiteValid ==
    Returned("IsWebsiteValidForEmail") =>
        (res <=> /\ Len(arg) > 0
                 /\ LowerSym(arg[1]) \in {"http://", "https://"}
                 /\ \A i \in 1..Len(arg) :
                       LowerSym(arg[i]) \notin
                           {"facebook", "instagram", "twitter", "linkedin", "youtube",
                            "tiktok", "pinterest", "yelp", "tripadvisor"})

C27_Witness ==
    /\ Returned("IsWebsiteValidForEmail")
    /\ arg = <<"HTTPS://", "my", "yelp", "reviews", ".", "com">>
    /\ res = FALSE


(***************************************************************************)
(* The network work of one Run.                                            *)
(***************************************************************************)
\* the URLs of a sequence of calls
URLsOf(calls) == {calls[i].url : i \in 1..Len(calls)}

\* C28: a Run makes at most 3 GETs of the homepage, GETs at most 5 distinct
\* contact pages at most twice each, and makes at most 4 renders; what it
\* calls is the homepage or a page the static homepage links to, and that
\* list of pages is fixed once the homepage was read.
C28_BoundedWork ==
    /\ [](/\ Len(CallsAt(1)) <= 3 /\ URLsOf(CallsAt(1)) \subseteq {WebSite}
          /\ Cardinality(URLsOf(CallsAt(2))) <= 5
          /\ \A u \in URLsOf(CallsAt(2)) :
                Len(SelectSeq(CallsAt(2), LAMBDA e : e.url = u)) <= 2
          /\ Len(Renders) <= 4
          /\ URLsOf(CallsAt(2)) \subseteq Elems(contactPages)
          /\ URLsOf(Renders) \subseteq {WebSite} \cup Elems(contactPages))
    /\ [][pc # "l1_extract" => contactPages' = contactPages]_vars

C28_Witness ==
    /\ pc = "done"
    /\ Len(CallsAt(1)) = 3
    /\ Cardinality(URLsOf(CallsAt(2))) = 5
    /\ Len(CallsAt(2)) = 10
    /\ Len(Renders) = 4


(***************************************************************************)
(* The helpers: fetchPage.                                                 *)
(***************************************************************************)
\* C29: fetchPage fails exactly when the request cannot be built, the
\* transport fails (refused redirect and done context included), the status
\* is 400 or more, or reading the body fails; a final response below 400 is
\* a success, and a body over the cap is cut to the cap, not refused.
C29_FetchPage ==
    Returned("fetchPage") =>
        /\ ~res.ok <=> \/ ~arg.urlOk
                       \/ arg.transport \in {"refused", "redirects", "timeout"}
                       \/ arg.ctxDone
                       \/ arg.status >= 400
                       \/ arg.readErr
        /\ res.ok => /\ arg.status < 400
                     /\ res.len <= 5
                     /\ arg.size <= 5 => res.len = arg.size
                     /\ arg.size > 5 => res.len = 5

C29_Witness ==
    /\ Returned("fetchPage")
    /\ arg.status = 304
    /\ arg.size > 5
    /\ res = Fetched(5)


(***************************************************************************)
(* The job and the render capability.                                      *)
(***************************************************************************)
\* C30: Process runs the pipeline with a fetcher exactly when BrowserActions
\* was invoked before it with a page that is not nil; j.browserPage is set
\* by BrowserActions alone, and without it (or with a nil page) the fetcher
\* is nil and nothing is rendered.
C30_FetcherFromBrowserActions ==
    /\ [](pc \notin {"job_new", "job_ready"} =>
             /\ browserFetcher \in {"nil", "page"}
             /\ browserFetcher = "page" <=> browserPage = "page")
    /\ [](browserPage = "nil" => Renders = <<>>)
    /\ [][/\ browserPage' # browserPage => pc = "job_new" /\ pc' = "job_ready"
          /\ browserFetcher' # browserFetcher => pc = "job_ready" /\ pc' = "idle"]_vars

C30_Witness ==
    /\ pc = "job_done"
    /\ browserPage = "page"
    /\ browserFetcher = "page"
    /\ emailSource = "browser_contact_page"


C32_CancelledBeforeHomepage ==
    [][(ctxDone /\ pc \in {"idle", "l1_fetch", "l1_backoff"}) =>
          /\ pc' \in {"idle", "l1_fetch", "l1_backoff", "done"}
          /\ pc' = "done" =>
                /\ emailStatus' = "website_error"
                /\ ret' = "nil"
                /\ \A i \in 1..Len(trace') :
                      /\ trace'[i].op = "get"
                      /\ trace'[i].lvl = 1
                      /\ trace'[i].url = WebSite]_vars

C32_Witness ==
    /\ pc = "done"
    /\ ctxDoneAt = "before"
    /\ emailStatus = "website_error"
    /\ retErr = "ctx"
    /\ Len(trace) = 1


(***************************************************************************)
(* What every call of Process does besides running the pipeline.           *)
(***************************************************************************)
\* C33: when Process has returned, whatever the outcome of the pipeline and
\* whatever the response held, the monitor's counter has grown by exactly 1
\* if a monitor is set (and the counter moves at no other step), the
\* response's Document and Body are nil, and the result is the job's entry,
\* no further jobs and a nil error.
C33_ProcessEpilogue ==
    /\ [](pc = "job_done" =>
             /\ placesCompleted = (IF exitMonitor = "set" THEN 1 ELSE 0)
             /\ resp.document = "nil"
             /\ resp.body = "nil"
             /\ result = [entry |-> "j.Entry", jobs |-> "nil", err |-> "nil"])
    /\ [](pc # "job_done" => placesCompleted = 0 /\ result = NoResult)

C33_Witness ==
    /\ pc = "job_done"
    /\ exitMonitor = "set"
    /\ placesCompleted = 1
    /\ emailStatus = "website_error"
    /\ resp.error = "err"


(***************************************************************************)
(* The production fetcher and a context that is done.                      *)
(***************************************************************************)
\* C34: called with a context that is done, pageBrowserFetcher's
\* FetchWithBrowser returns the context's error and does not navigate; so
\* in a Run with that fetcher a render called after the deadline gives no
\* content to extract, and a result found by rendering comes from a render
\* called while the context was live.
C34_NoRenderAfterDeadline ==
    /\ (Returned("FetchWithBrowser") /\ arg.ctxDone) =>
           res = Rendered("err", NoBody, "ctx", FALSE)
    /\ (fn = "" /\ browserFetcher = "page") =>
           /\ pc \in {"l3_home_extract", "l3_extract"} => trace[Len(trace)].sent
           /\ (pc = "done" /\ emailSource \in {"browser_homepage", "browser_contact_page"}) =>
                  /\ trace[Len(trace)].op = "render"
                  /\ trace[Len(trace)].sent

C34_Witness ==
    /\ fn = ""
    /\ browserFetcher = "page"
    /\ pc = "done"
    /\ ctxDoneAt = "Level3"
    /\ emailStatus = "not_found"
    /\ Len(Renders) = 1
    /\ ~trace[Len(trace)].sent


(***************************************************************************)
(* extractEmailsFromDoc: the order of its result and its argument.         *)
(***************************************************************************)
\* the first anchor selected as a mailto link that gives the address x
FirstMailto(doc, x) ==
    CHOOSE i \in 1..Len(doc.nodes) :
        /\ doc.nodes[i].kind = "a" /\ doc.nodes[i].href # <<>>
        /\ Head(doc.nodes[i].href) \in MailtoSchemes
        /\ ToLower(MailtoValue(doc.nodes[i].href)) = x
        /\ \A j \in 1..(i - 1) :
              ~(/\ doc.nodes[j].kind = "a" /\ doc.nodes[j].href # <<>>
                /\ Head(doc.nodes[j].href) \in MailtoSchemes
                /\ ToLower(MailtoValue(doc.nodes[j].href)) = x)

\* the valid addresses in the text of the anchors and text nodes
ShownAddrs(doc) ==
    UNION {ValidIn(n.words) : n \in {m \in Elems(doc.nodes) : m.kind \in {"a", "text"}}}

C36_RecordByID ==
    (Returned("UpdateRecord") \/ Returned("DeleteRecord")) =>
        /\ (arg.load = "ok" /\ arg.recordID \notin 1..Len(arg.stored)) => res.err = "ErrNotFound"
        /\ res.err = "ErrNotFound" => (arg.load = "ok" /\ arg.recordID \notin 1..Len(arg.stored))
        /\ res.err \in {"invalid", "missing", "parse", "ErrNotFound", "field"} =>
               res.stored = arg.stored
        /\ (res.err = "nil" /\ fn = "UpdateRecord") =>
               /\ Len(res.stored) = Len(arg.stored)
               /\ \A k \in 1..Len(arg.stored) :
                     k # arg.recordID => res.stored[k] = arg.stored[k]
               /\ res.stored[arg.recordID] = Updated(arg.stored[arg.recordID], arg.updates)
               /\ res.entry = res.stored[arg.recordID]
        /\ (res.err = "nil" /\ fn = "DeleteRecord") =>
               /\ Len(res.stored) = Len(arg.stored) - 1
               /\ \A k \in 1..Len(res.stored) :
                     res.stored[k] = arg.stored[IF k < arg.recordID THEN k ELSE k + 1]

C36_Witness ==
    /\ Returned("UpdateRecord")
    /\ arg.recordID = 2
    /\ Len(arg.stored) = 2
    /\ arg.updates.title.type = "string"
    /\ arg.updates.rating.type = "bool"
    /\ res.err = "field"
    /\ res.stored = arg.stored


\* the places (from 1) of the stored entries whose title holds the search
Matching(w) ==
    {k \in 1..Len(w.stored) :
        w.search = <<>> \/ Contains(ToLower(w.stored[k].title), ToLower(w.search))}

\* C37: for every page and every positive pageSize GetRecords returns
\* without failing: total is the number of matching entries, the list holds
\* at most pageSize of them in stored order, each with its 0-based index in
\* the stored array, and a page past the end gives the empty list.
C37_PageWindow ==
    (Returned("GetRecords") /\ arg.load = "ok" /\ arg.pageSize > 0) =>
        /\ ~res.panic
        /\ res.err = "nil"
        /\ res.total = Cardinality(Matching(arg))
        /\ Len(res.list) <= arg.pageSize
        /\ \A i \in 1..Len(res.list) :
              /\ res.list[i].Index + 1 \in Matching(arg)
              /\ res.list[i].Entry = arg.stored[res.list[i].Index + 1]
              /\ \A j \in 1..(i - 1) : res.list[j].Index < res.list[i].Index
        /\ (arg.page - 1) * arg.pageSize >= res.total => res.list = <<>>


C39_ThreeHops ==
    Returned("Do") =>
        /\ res.ok <=> arg.hops <= 3
        /\ res.ok => res.followed = arg.hops

====
